---- MODULE Spec2Model ----
(***************************************************************************)
(* Model of the emulator lifecycle (modules/emulator_manager.py,           *)
(* EmulatorManager) and of the command execution engine                    *)
(* (modules/command_runner.py, CommandRunner).                             *)
(*                                                                         *)
(* Both classes are asyncio code.  A coroutine runs without interruption   *)
(* until it awaits something that really suspends: asyncio.sleep, or an    *)
(* asyncio subprocess.  subprocess.run and subprocess.Popen block the      *)
(* whole event loop.  Every action below is therefore one run of a         *)
(* coroutine from one suspension point to the next.                        *)
(***************************************************************************)
EXTENDS Integers, Sequences, FiniteSets, TLC

VARIABLES
    \* ---- EmulatorManager and its environment
    pc,              \* per start_emulator call: where the coroutine is suspended
    avd_name,        \* per call: the avd_name argument
    devices_before,  \* per call: the local devices_before
    waited,          \* per call: the local waited of the wait loop it is in
    serial,          \* per call: the local serial (NoSerial until discovered)
    ret,             \* per call: "pending", "None" or "emulator" (the record)
    why,             \* per call: the path on which it returned
    ops,             \* per call: processes spawned and stop commands issued
    rec,             \* the EmulatorInfo object each call created
    emulators,       \* self.emulators: serial -> the call whose record it holds
    process,         \* the emulator process each call spawned
    attached,        \* adb's device list: serial -> the process that owns it
    lastStop,        \* the latest stop_emulator invocation: argument, trace, result
    stops,           \* number of stop_emulator calls made by the caller
    boot,            \* per call: what _wait_for_boot probed and returned
    lookup,          \* per call: what list_avds returned, and whether the
                     \* devices were snapshotted
    \* ---- CommandRunner
    retry_attempts,  \* self.retry_attempts
    command_history, \* self.command_history
    exec,            \* per execute_command call: its locals and where it is
    \* ---- download_system_image, create_avd and their environment
    installed,       \* the api levels whose system image the SDK holds
    config,          \* the lines of the definition's config.ini (or NoFile)
    lastCall,        \* the latest download_system_image / create_avd call
    calls,           \* number of such calls made
    \* ---- CommandRunner: verify_output_pattern
    verify,          \* the verify_output_pattern call: arguments, progress, result
    formatted,       \* the _format_command call: arguments and result
    finished         \* the commands whose last attempt has ended, in that order

lifeVars == <<pc, avd_name, devices_before, waited, serial, ret, why, ops,
              rec, emulators, process, attached, lastStop, stops, boot,
              lookup>>

execVars == <<retry_attempts, command_history, exec, finished>>

defVars == <<installed, config, lastCall, calls>>

textVars == <<verify, formatted>>

vars == <<lifeVars, execVars, defVars, textVars>>

-----------------------------------------------------------------------------
(* Inputs and constants of EmulatorManager *)

\* The start_emulator calls in flight on one manager.
Tasks == {1, 2}

\* Serials the emulator processes can claim.
Serials == {"emulator-5554", "emulator-5556"}

NoSerial == ""

\* The console port a serial names.
SerialPort(s) == IF s = "emulator-5554" THEN 5554 ELSE 5556

\* Definitions that list_avds reports, and one name it does not.
ListedAvds == {"dev_34", "dev_35"}

AvdNames == ListedAvds \cup {"dev_missing"}

\* The names call t may be given.  The two listed definitions are
\* interchangeable, so call 1 is given the first of them (or the unlisted
\* name) and call 2 any name: every pair of names is covered up to renaming.
StartNames(t) == IF t = 1 THEN {"dev_34", "dev_missing"} ELSE AvdNames

\* api_level of a listed definition (_get_avd_info).
AvdApiLevel(name) == IF name = "dev_34" THEN 34 ELSE 35

\* _wait_for_new_device(devices_before, timeout=120), check_interval = 2
NewDeviceTimeout == 120

NewDeviceCheckInterval == 2

\* _wait_for_boot(serial, timeout=120), check_interval = 3
BootTimeout == 120

BootCheckInterval == 3

\* Number of stop_emulator calls the caller makes (SpecStop).
MaxStops == 2

\* Outcomes of subprocess.run(['adb', '-s', serial, 'emu', 'kill'], timeout=10):
\* exit 0, a non-zero exit, or an exception (TimeoutExpired, FileNotFoundError).
GracefulOutcomes == {"zero", "nonzero", "raise"}

\* Outcomes of subprocess.run(['kill', pid]): it ran, or it raised.
ForcedOutcomes == {"ok", "raise"}

\* Outcomes of one boot attempt's two probes, <<getprop, pm>>: getprop
\* sys.boot_completed prints "1", prints something else or exits non-zero, or
\* subprocess.run raises; pm list packages, run only after a "1", exits 0,
\* exits non-zero, or raises.
BootProbes ==
    {<<"1", "ok">>, <<"1", "fail">>, <<"1", "raise">>,
     <<"not1", "not_run">>, <<"raise", "not_run">>}

\* _wait_for_boot before its first attempt.  on: the probes are observed;
\* last, at: the outcomes of the latest attempt's probes and the value of
\* waited at that attempt; property_seen, packages_seen: an earlier attempt
\* read "1", or had its package listing succeed; result: what the function
\* returned ("raised": a probe raised out of it).
NoBoot(on) ==
    [on |-> on, last |-> <<"", "">>, at |-> 0, property_seen |-> FALSE,
     packages_seen |-> FALSE, result |-> "none"]

\* An EmulatorInfo that does not exist yet.  trail is the sequence of values
\* assigned to status.
NoRecord ==
    [name |-> "", serial |-> NoSerial, api_level |-> 0, status |-> "absent",
     start_time |-> "unset", process_id |-> 0, trail |-> <<>>]

NoStop == [serial |-> NoSerial, graceful |-> "", handle |-> 0, issued |-> <<>>,
           ret |-> "none", by |-> 0]

Op(o, s, p) == [op |-> o, serial |-> s, pid |-> p]

-----------------------------------------------------------------------------
(* The environment: adb and the emulator processes *)

\* Outcomes of 'adb devices': the list, or a failure.
AdbOutcomes == {"devices", "error"}

\* _get_connected_devices: the serials in state 'device', or [] when adb
\* fails (non-zero exit, or an exception, which is caught).
ConnectedDevices(att, adb) ==
    IF adb = "devices" THEN {s \in Serials : att[s] # 0} ELSE {}

Detach(att, pid) == [s \in Serials |-> IF att[s] = pid THEN 0 ELSE att[s]]

World(e, r, p, a) == [emulators |-> e, rec |-> r, process |-> p, attached |-> a]

CurrentWorld == World(emulators, rec, process, attached)

\* The effect of 'adb -s serial emu kill' exiting 0: the emulator that owns
\* the serial shuts down.
GracefulKill(w, s, graceful) ==
    IF graceful = "zero" /\ w.attached[s] # 0
    THEN [w EXCEPT !.process[w.attached[s]] = "terminated",
                   !.attached = Detach(w.attached, w.attached[s])]
    ELSE w

\* A kill that leaves the process running.
KillIgnored(w, pid, forced) == w

\* The effect of 'kill pid' (or process.terminate()).
ForcedKill(w, pid, forced) ==
    IF forced = "ok" /\ w.process[pid] = "alive"
    THEN [w EXCEPT !.process[pid] = "terminated",
                   !.attached = Detach(w.attached, pid)]
    ELSE w

\* 'emu kill' can exit 0 only for a device adb knows.
GracefulPossible(w, s, graceful) == graceful = "zero" => w.attached[s] # 0

\* list_running_emulators(): list(self.emulators.values()), the records
\* that self.emulators holds in world w.  It is not a coroutine: a task
\* calls it between the steps of the others.
list_running_emulators(w) ==
    {w.rec[w.emulators[s]] : s \in {x \in Serials : w.emulators[x] # 0}}

-----------------------------------------------------------------------------
(* stop_emulator(serial): no suspension point, so it runs as one step *)

\* The process_id of the record self.emulators holds for s (0: no record).
KnownHandle(w, s) ==
    IF w.emulators[s] # 0 THEN w.rec[w.emulators[s]].process_id ELSE 0

\* The result: the world after the call, the value returned, and the commands
\* issued, in order.
stop_emulator(w, s, graceful, forced) ==
    IF graceful = "raise"
    THEN \* subprocess.run raised; except Exception: return False
         [w |-> w, ret |-> "False", issued |-> <<Op("emu_kill", s, 0)>>]
    ELSE LET w1 == GracefulKill(w, s, graceful)
         IN IF w1.emulators[s] # 0
            THEN LET e   == w1.emulators[s]
                     pid == w1.rec[e].process_id
                     w2  == [w1 EXCEPT !.rec[e].status = "stopped",
                                       !.rec[e].trail = Append(@, "stopped")]
                     w3  == IF pid # 0 THEN ForcedKill(w2, pid, forced) ELSE w2
                     w4  == [w3 EXCEPT !.emulators[s] = 0]
                 IN [w |-> w4, ret |-> "True",
                     issued |-> <<Op("emu_kill", s, 0)>> \o
                                (IF pid # 0 THEN <<Op("kill", NoSerial, pid)>>
                                 ELSE <<>>)]
            ELSE [w |-> w1, ret |-> "True", issued |-> <<Op("emu_kill", s, 0)>>]

\* What is kept of a stop_emulator(s) invocation made in world w: its
\* argument, the graceful command's outcome, the handle of the record it
\* found, the commands it issued, its result and its caller (0: the user).
StopRecord(w, s, graceful, r, caller) ==
    [serial |-> s, graceful |-> graceful, handle |-> KnownHandle(w, s),
     issued |-> r.issued, ret |-> r.ret, by |-> caller]

SetWorld(w) ==
    /\ emulators' = w.emulators
    /\ rec' = w.rec
    /\ process' = w.process
    /\ attached' = w.attached

\* A wait loop without a deadline.
LoopForever(wt, timeout) == TRUE

\* while waited < timeout, in _wait_for_new_device and _wait_for_boot
LoopGoesOn(wt, timeout) == wt < timeout

\* An exception that leaves start_emulator.
Reraised(reason) == "raised"

\* except Exception as e: logger.error(...); return None
Excepted(reason) == "None"

\* start_emulator returns value on the path named reason.
Return(t, value, reason) ==
    /\ pc' = [pc EXCEPT ![t] = "returned"]
    /\ ret' = [ret EXCEPT ![t] = value]
    /\ why' = [why EXCEPT ![t] = reason]
    /\ waited' = [waited EXCEPT ![t] = 0]

\* The caller awaits stop_emulator(s).
StopCall(s) ==
    /\ stops < MaxStops
    /\ \E graceful \in GracefulOutcomes, forced \in ForcedOutcomes :
         /\ GracefulPossible(CurrentWorld, s, graceful)
         /\ LET r == stop_emulator(CurrentWorld, s, graceful, forced)
            IN /\ SetWorld(r.w)
               /\ lastStop' = StopRecord(CurrentWorld, s, graceful, r, 0)
    /\ stops' = stops + 1
    /\ UNCHANGED <<pc, avd_name, devices_before, waited, serial, ret, why, ops,
                   boot>>
    /\ UNCHANGED <<lookup, execVars, defVars, textVars>>

\* list(self.emulators.keys()): the serials that have a record.  A dict keeps
\* its keys in insertion order; the serials are taken here in the order of
\* their ports.
RECURSIVE Keys(_, _)
Keys(e, todo) ==
    IF \A s \in todo : e[s] = 0 THEN <<>>
    ELSE LET s == CHOOSE x \in todo :
                    /\ e[x] # 0
                    /\ \A y \in todo : e[y] # 0 => SerialPort(x) <= SerialPort(y)
         IN <<s>> \o Keys(e, todo \ {s})

\* for serial in serials: await self.stop_emulator(serial), with graceful[s]
\* and forced[s] the outcomes of the commands of the stop of s.  last is the
\* latest stop_emulator invocation; ok: every outcome was possible.
RECURSIVE StopEach(_, _, _, _, _)
StopEach(w, last, serials, graceful, forced) ==
    IF serials = <<>> THEN [w |-> w, last |-> last, ok |-> TRUE]
    ELSE LET s == Head(serials)
             r == stop_emulator(w, s, graceful[s], forced[s])
             rest == StopEach(r.w, StopRecord(w, s, graceful[s], r, 0),
                              Tail(serials), graceful, forced)
         IN [rest EXCEPT !.ok = @ /\ GracefulPossible(w, s, graceful[s])]

\* The caller awaits stop_all_emulators(): stop_emulator has no suspension
\* point, so the whole loop runs as one step.
StopAllCall ==
    /\ stops < MaxStops
    /\ \E graceful \in [Serials -> GracefulOutcomes],
          forced \in [Serials -> ForcedOutcomes] :
         LET r == StopEach(CurrentWorld, lastStop, Keys(emulators, Serials),
                           graceful, forced)
         IN /\ r.ok
            /\ SetWorld(r.w)
            /\ lastStop' = r.last
    /\ stops' = stops + 1
    /\ UNCHANGED <<pc, avd_name, devices_before, waited, serial, ret, why, ops,
                   boot>>
    /\ UNCHANGED <<lookup, execVars, defVars, textVars>>

-----------------------------------------------------------------------------
(* start_emulator(avd_name) *)

\* The test of the property alone.
PropertyAlone(gp, pm) == gp = "1"

\* stdout.strip() == '1' of a getprop that exited 0, and then a package
\* listing that exited 0: return True
BootCompleted(gp, pm) == gp = "1" /\ pm = "ok"

\* b after an attempt that probed <<gp, pm>> at waited = wt and made
\* _wait_for_boot return result ("none": it sleeps and goes on).
Observe(b, gp, pm, wt, result) ==
    IF ~b.on THEN b
    ELSE [on |-> TRUE, last |-> <<gp, pm>>, at |-> wt,
          property_seen |-> b.property_seen \/ b.last[1] = "1",
          packages_seen |-> b.packages_seen \/ b.last[2] = "ok",
          result |-> result]

\* One pass of the body of _wait_for_boot's loop, entered with waited = wt,
\* and what start_emulator does with the outcome.  w is the world in which the
\* record of t exists.
BootAttempt(t, s, wt, w, gp, pm) ==
    /\ gp = "1" => w.attached[s] # 0
    /\ IF gp = "raise" \/ (gp = "1" /\ pm = "raise")
       THEN \* subprocess.run raised: start_emulator's except returns None
            /\ SetWorld(w)
            /\ Return(t, Excepted("probe_error"), "probe_error")
            /\ boot' = [boot EXCEPT ![t] = Observe(@, gp, pm, wt, "raised")]
       ELSE IF BootCompleted(gp, pm)
       THEN \* booted: emulator.status = 'running'; return emulator
            /\ boot' = [boot EXCEPT ![t] = Observe(@, gp, pm, wt, "True")]
            /\ SetWorld([w EXCEPT !.rec[t].status = "running",
                                  !.rec[t].trail = Append(@, "running")])
            /\ Return(t, "emulator", "booted")
       ELSE \* await asyncio.sleep(check_interval)
            /\ SetWorld(w)
            /\ pc' = [pc EXCEPT ![t] = "wait_boot"]
            /\ waited' = [waited EXCEPT ![t] = wt]
            /\ boot' = [boot EXCEPT ![t] = Observe(@, gp, pm, wt, "none")]
            /\ UNCHANGED <<ret, why>>
    /\ UNCHANGED <<ops, lastStop>>

\* How the list_avds call of start_emulator(name) goes: every definition is
\* listed; 'emulator -list-avds' fails (non-zero exit or an exception, both
\* giving []); or _get_avd_info(name) returns None because the config.ini of
\* name is missing or cannot be read, so that name is left out.
ListOutcomes == {"listed", "list_failed", "config_unreadable"}

\* The names of the definitions list_avds returns.
ListedNames(listing, name) ==
    IF listing = "listed" THEN ListedAvds
    ELSE IF listing = "config_unreadable" THEN ListedAvds \ {name}
    ELSE {}

\* Every name taken as found.
FoundAny(name, avds) == TRUE

\* avd_info = next((avd for avd in avds if avd['name'] == avd_name), None)
Found(name, avds) == name \in avds

\* No list_avds call made by the start_emulator call yet.
NoLookup == [listing |-> "", avds |-> {}, snapshot |-> FALSE]

\* From the call to the first sleep of _wait_for_new_device.
StartBegin(t) ==
    /\ pc[t] = "idle"
    /\ \E name \in StartNames(t), listing \in ListOutcomes, adb \in AdbOutcomes,
          spawnOk \in BOOLEAN :
         LET avds == ListedNames(listing, name)
         IN /\ avd_name' = [avd_name EXCEPT ![t] = name]
            /\ lookup' = [lookup EXCEPT ![t] = [listing |-> listing, avds |-> avds,
                                               snapshot |-> Found(name, avds)]]
            /\ IF ~Found(name, avds)
               THEN /\ Return(t, "None", "avd_not_found")
                    /\ UNCHANGED <<devices_before, ops, process>>
               ELSE /\ devices_before' =
                         [devices_before EXCEPT ![t] = ConnectedDevices(attached, adb)]
                    /\ IF spawnOk
                       THEN /\ process' = [process EXCEPT ![t] = "alive"]
                            /\ ops' = [ops EXCEPT ![t] = Append(@, Op("spawn", NoSerial, t))]
                            /\ pc' = [pc EXCEPT ![t] = "wait_new_device"]
                            /\ waited' = [waited EXCEPT ![t] = 0]
                            /\ UNCHANGED <<ret, why>>
                       ELSE \* Popen raised
                            /\ Return(t, Excepted("spawn_error"), "spawn_error")
                            /\ UNCHANGED <<ops, process>>
    /\ UNCHANGED <<serial, rec, emulators, attached, lastStop, stops, boot>>
    /\ UNCHANGED <<execVars, defVars, textVars>>

\* Every listed device taken as new.
AllCurrentDevices(current_devices, before) == current_devices

\* new_devices = set(current_devices) - set(initial_devices)
NewDevices(current_devices, before) == current_devices \ before

\* One iteration of _wait_for_new_device after its sleep and, when a new
\* device is found, start_emulator up to the first sleep of _wait_for_boot.
DiscoveryPoll(t) ==
    /\ pc[t] = "wait_new_device"
    /\ \E adb \in AdbOutcomes :
         LET wt == waited[t] + NewDeviceCheckInterval
             new_devices == NewDevices(ConnectedDevices(attached, adb),
                                       devices_before[t])
         IN IF new_devices # {}
            THEN \E s \in new_devices, probe \in BootProbes :
                   LET emulator == [name |-> avd_name[t], serial |-> s,
                                    api_level |-> AvdApiLevel(avd_name[t]),
                                    status |-> "starting", start_time |-> "now",
                                    process_id |-> t, trail |-> <<"starting">>]
                       w == World([emulators EXCEPT ![s] = t],
                                  [rec EXCEPT ![t] = emulator], process, attached)
                   IN /\ serial' = [serial EXCEPT ![t] = s]
                      /\ BootAttempt(t, s, 0, w, probe[1], probe[2])
            ELSE IF LoopGoesOn(wt, NewDeviceTimeout)
            THEN /\ waited' = [waited EXCEPT ![t] = wt]
                 /\ UNCHANGED <<pc, serial, ret, why, ops, rec, emulators,
                                process, attached, lastStop, boot>>
            ELSE \* timeout: process.terminate(); return None
                 /\ SetWorld(ForcedKill(CurrentWorld, t, "ok"))
                 /\ ops' = [ops EXCEPT ![t] = Append(@, Op("terminate", NoSerial, t))]
                 /\ Return(t, "None", "discovery_timeout")
                 /\ UNCHANGED <<serial, lastStop, boot>>
    /\ UNCHANGED <<avd_name, devices_before, stops>>
    /\ UNCHANGED <<lookup, execVars, defVars, textVars>>

\* _wait_for_boot resumes after its sleep.
BootPoll(t) ==
    /\ pc[t] = "wait_boot"
    /\ LET wt == waited[t] + BootCheckInterval
       IN IF LoopGoesOn(wt, BootTimeout)
          THEN \E probe \in BootProbes :
                 BootAttempt(t, serial[t], wt, CurrentWorld, probe[1], probe[2])
          ELSE \* return False; await self.stop_emulator(serial); return None
               \E graceful \in GracefulOutcomes, forced \in ForcedOutcomes :
                 /\ GracefulPossible(CurrentWorld, serial[t], graceful)
                 /\ LET r == stop_emulator(CurrentWorld, serial[t], graceful, forced)
                    IN /\ SetWorld(r.w)
                       /\ ops' = [ops EXCEPT ![t] = @ \o r.issued]
                       /\ lastStop' = StopRecord(CurrentWorld, serial[t], graceful, r, t)
                 /\ Return(t, "None", "boot_timeout")
                 /\ boot' = [boot EXCEPT ![t] =
                             IF @.on THEN [@ EXCEPT !.result = "False"] ELSE @]
    /\ UNCHANGED <<avd_name, devices_before, serial, stops>>
    /\ UNCHANGED <<lookup, execVars, defVars, textVars>>

\* The emulator process spawned by t registers with adb under the first free
\* serial (the emulator takes the lowest free console port).
DeviceAppears(t) ==
    /\ process[t] = "alive"
    /\ \A s \in Serials : attached[s] # t
    /\ \E s \in Serials :
         /\ attached[s] = 0
         /\ \A s2 \in Serials : attached[s2] = 0 => SerialPort(s) <= SerialPort(s2)
         /\ attached' = [attached EXCEPT ![s] = t]
    /\ UNCHANGED <<pc, avd_name, devices_before, waited, serial, ret, why, ops,
                   rec, emulators, process, lastStop, stops, boot>>
    /\ UNCHANGED <<lookup, execVars, defVars, textVars>>


-----------------------------------------------------------------------------
(* CommandRunner: execute_command and capture_screenshot *)

\* The execute_command calls made by callers, which may overlap.
Calls == {1, 2}

\* CommandRunner(timeout=30, retry_attempts=2)
DefaultRetryAttempts == 2

\* Largest retry_attempts a runner is constructed with.
MaxRetryAttempts == 2

\* How one run of the command's process ends: exit 0, a non-zero exit, still
\* running when the timeout expires, or the process could not be created.
AttemptOutcomes == {"zero", "nonzero", "timeout", "spawn_error"}

\* CommandRunner(timeout=30, ...)
DefaultTimeout == 30

\* The timeout argument of a call; 0 stands for the values that are false in
\* "timeout or self.timeout" (None, the default, and 0).
TimeoutArgs == {0, 5}

\* timeout = timeout or self.timeout
EffectiveTimeout(timeout) == IF timeout = 0 THEN DefaultTimeout ELSE timeout

\* The timeout of the command a call runs: capture_screenshot passes none to
\* its nested execute_command calls.
CommandTimeout(command, timeout) ==
    IF command = "main" THEN EffectiveTimeout(timeout) ELSE DefaultTimeout

\* No result: the value of an unbound name.  Texts are sequences of their
\* parts; the empty text is <<>>.
NoResult ==
    [call |-> 0, command |-> "", attempt |-> 0, outcome |-> "unbound",
     success |-> FALSE, return_code |-> 0, stdout |-> <<>>, stderr |-> <<>>,
     process |-> <<>>, screenshot_path |-> "None"]

NoCall ==
    [pc |-> "idle", command |-> "", capture_screenshot |-> FALSE, timeout |-> 0,
     attempt |-> 0, process |-> <<>>, result |-> NoResult, main |-> NoResult,
     log |-> <<>>, mainlog |-> <<>>, ret |-> NoResult]

\* log and mainlog hold the success of each attempt of the retry loop the call
\* is in (or ran last), and of the loop of the call's own command.  process
\* holds what has been done to the process of the attempt under way.

\* process.returncode of a process that exited by itself.
ExitCode(outcome) == IF outcome = "zero" THEN 0 ELSE 1

\* A success flag that is true for every result.
AlwaysSucceeded(return_code) == TRUE

\* success=process.returncode == 0
Succeeded(return_code) == return_code = 0

\* The text of an execution error in place of the timeout's.
ErrorText(timeout) == <<"str(e)">>

\* f"Command timeout after {timeout} seconds"
TimeoutText(timeout) == <<"Command timeout after ", timeout, " seconds">>

\* The CommandResult _run_command builds for a run that ended with outcome,
\* under the timeout given.  call, attempt and outcome identify the run that
\* produced the result, and process is what was done to its process before
\* the result was built.
run_command(c, command, attempt, outcome, timeout, proc) ==
    [call |-> c, command |-> command, attempt |-> attempt, outcome |-> outcome,
     success |-> IF outcome \in {"zero", "nonzero"}
                 THEN Succeeded(ExitCode(outcome)) ELSE FALSE,
     return_code |-> IF outcome \in {"zero", "nonzero"}
                     THEN ExitCode(outcome) ELSE -1,
     stdout |-> IF outcome \in {"zero", "nonzero"} THEN <<"output">> ELSE <<>>,
     stderr |-> CASE outcome = "zero" -> <<>>
                  [] outcome = "nonzero" -> <<"error output">>
                  [] outcome = "timeout" -> TimeoutText(timeout)
                  [] OTHER -> <<"str(e)">>,
     process |-> proc,
     screenshot_path |-> "None"]

\* The loop without its test of result.success.
LoopBreaksAtEndOnly(success, attempt, n) == attempt = n - 1

\* if result.success or attempt == self.retry_attempts - 1: break
LoopBreaks(success, attempt, n) == success \/ attempt = n - 1

\* The result stored at the front of the history.
StoreAtFront(history, result) == <<result>> \o history

\* The history with nothing stored.
StoreNothing(history, result) == history

\* The history cut down to the result stored last.
StoreLatestOnly(history, result) == <<result>>

\* self.command_history.append(result), after the loop
StoreInHistory(history, result) == Append(history, result)

\* The history with the failed attempt's result stored before the retry.
FailedAttemptStored(history, result) == Append(history, result)

\* The history after an attempt that is followed by a retry: the loop stores
\* nothing, and the next attempt overwrites result.
HistoryAfterFailedAttempt(history, result) == history

\* The command of capture_screenshot's chain that follows command, given how
\* command ended; "" ends the chain.
NextShotCommand(command, success) ==
    CASE command = "screencap" /\ success -> "pull"
      [] command = "pull" /\ success -> "rm"
      [] OTHER -> ""

\* A path returned wherever the chain ends.
ShotPathAlways(command) == "screenshot.png"

\* What capture_screenshot returns when its chain ends after command: the
\* path once the removal has been run, whatever its result, else None.
ShotPath(command) == IF command = "rm" THEN "screenshot.png" ELSE "None"

\* finished while nothing has run.  on: the order is observed; order: the
\* <<call, command>> of each command whose retry loop has ended, in the
\* order in which their last attempts ended.
NoneFinished(on) == [on |-> on, order |-> <<>>]

Finish(f, result) ==
    IF f.on THEN [f EXCEPT !.order = Append(@, <<result.call, result.command>>)]
    ELSE f

\* The retry loop of one execute_command has ended with result.
\*   - a command of capture_screenshot: the nested execute_command stores its
\*     result and returns; the chain goes on or ends, and when it ends the
\*     outer call sets screenshot_path, stores its own result and returns;
\*   - the call's own command: capture_screenshot starts if requested,
\*     otherwise the result is stored and returned.
LoopDone(c, result, log) ==
    LET e == exec[c]
    IN /\ finished' = Finish(finished, result)
       /\ IF e.command = "main"
          THEN IF e.capture_screenshot
               THEN /\ exec' = [exec EXCEPT ![c].pc = "running",
                                            ![c].command = "screencap",
                                            ![c].attempt = 0,
                                            ![c].process = <<>>,
                                            ![c].result = NoResult,
                                            ![c].main = result,
                                            ![c].log = <<>>,
                                            ![c].mainlog = log]
                    /\ UNCHANGED command_history
               ELSE /\ command_history' = StoreInHistory(command_history, result)
                    /\ exec' = [exec EXCEPT ![c].pc = "returned",
                                            ![c].process = <<>>,
                                            ![c].result = result,
                                            ![c].log = log,
                                            ![c].mainlog = log,
                                            ![c].ret = result]
          ELSE LET next == NextShotCommand(e.command, result.success)
               IN IF next # ""
                  THEN /\ command_history' = StoreInHistory(command_history, result)
                       /\ exec' = [exec EXCEPT ![c].pc = "running",
                                               ![c].command = next,
                                               ![c].attempt = 0,
                                               ![c].process = <<>>,
                                               ![c].result = NoResult,
                                               ![c].log = <<>>]
                  ELSE LET main == [e.main EXCEPT
                                      !.screenshot_path = ShotPath(e.command)]
                       IN /\ command_history' =
                               StoreInHistory(StoreInHistory(command_history, result),
                                              main)
                          /\ exec' = [exec EXCEPT ![c].pc = "returned",
                                                  ![c].process = <<>>,
                                                  ![c].result = result,
                                                  ![c].log = log,
                                                  ![c].ret = main]

\* The capture_screenshot argument call c may be given: at most one of the
\* overlapping calls asks for a screenshot.
CaptureChoices(c) ==
    IF \E d \in Calls \ {c} : exec[d].capture_screenshot THEN {FALSE} ELSE BOOLEAN

\* execute_command is called: up to the first await of _run_command.  With
\* retry_attempts = 0 the loop body never runs and result is unbound: the
\* call raises UnboundLocalError (capture_screenshot, if requested, swallows
\* the same error of its nested call and returns None first).
ExecuteBegin(c) ==
    /\ exec[c].pc = "idle"
    /\ \E capture \in CaptureChoices(c), timeout \in TimeoutArgs :
         IF retry_attempts = 0
         THEN exec' = [exec EXCEPT ![c].pc = "raised", ![c].command = "main",
                                   ![c].capture_screenshot = capture,
                                   ![c].timeout = timeout]
         ELSE exec' = [exec EXCEPT ![c].pc = "running", ![c].command = "main",
                                   ![c].capture_screenshot = capture,
                                   ![c].timeout = timeout,
                                   ![c].attempt = 0]
    /\ UNCHANGED <<retry_attempts, command_history, finished>>
    /\ UNCHANGED <<lifeVars, defVars, textVars>>

\* _run_command has returned result: the loop breaks or sleeps.
AttemptResult(c, result) ==
    LET e == exec[c]
        log == Append(e.log, result.success)
    IN IF LoopBreaks(result.success, e.attempt, retry_attempts)
       THEN LoopDone(c, result, log)
       ELSE /\ exec' = [exec EXCEPT ![c].pc = "backoff",
                                    ![c].process = <<>>,
                                    ![c].result = result,
                                    ![c].log = log]
            /\ command_history' =
                 HistoryAfterFailedAttempt(command_history, result)
            /\ UNCHANGED finished

\* The await of wait_for(process.communicate(), timeout) is over: the process
\* could not be created, or exited, or the timeout expired; on expiry the
\* process is killed and its termination awaited.
AttemptEnd(c) ==
    /\ exec[c].pc = "running"
    /\ \E outcome \in AttemptOutcomes :
         LET e == exec[c]
             proc == IF outcome = "spawn_error" THEN <<>> ELSE <<"spawn", "exit">>
         IN IF outcome = "timeout"
            THEN /\ exec' = [exec EXCEPT ![c].pc = "killed",
                                         ![c].process = <<"spawn", "kill">>]
                 /\ UNCHANGED <<command_history, finished>>
            ELSE AttemptResult(c, run_command(c, e.command, e.attempt, outcome,
                                  CommandTimeout(e.command, e.timeout), proc))
    /\ UNCHANGED retry_attempts
    /\ UNCHANGED <<lifeVars, defVars, textVars>>

\* The await of process.communicate() after process.kill() is over:
\* TimeoutExpired is raised and turned into the timeout's result.
TimeoutDrained(c) ==
    /\ exec[c].pc = "killed"
    /\ LET e == exec[c]
       IN AttemptResult(c, run_command(c, e.command, e.attempt, "timeout",
                             CommandTimeout(e.command, e.timeout),
                             Append(e.process, "wait")))
    /\ UNCHANGED retry_attempts
    /\ UNCHANGED <<lifeVars, defVars, textVars>>

\* await asyncio.sleep(2) is over: the next iteration of the loop.
Backoff(c) ==
    /\ exec[c].pc = "backoff"
    /\ exec' = [exec EXCEPT ![c].pc = "running", ![c].attempt = @ + 1]
    /\ UNCHANGED <<retry_attempts, command_history, finished>>
    /\ UNCHANGED <<lifeVars, defVars, textVars>>

-----------------------------------------------------------------------------
(* download_system_image, create_avd and _configure_avd.  They await nothing *)
(* that suspends (subprocess.run blocks), so each call runs as one step.     *)

\* SUPPORTED_API_LEVELS = [31, 33, 34, 35, 36]
SUPPORTED_API_LEVELS == {31, 33, 34, 35, 36}

\* The api_level arguments given.
ApiLevels == 30..37

\* Every level taken as supported.
AnyLevel(api_level) == TRUE

\* api_level in self.SUPPORTED_API_LEVELS
IsSupported(api_level) == api_level \in SUPPORTED_API_LEVELS

\* Number of download_system_image / create_avd calls made.
MaxCalls == 2

\* Longest config.ini, in lines, that avdmanager leaves.
MaxLines == 3

\* Outcomes of Popen(['yes']) and run([sdkmanager, '--licenses'], timeout=30):
\* it ran (its exit code is not looked at), it timed out, or a call raised.
\* "not_run", here and below, is the outcome of a tool that is not reached.
LicenseOutcomes == {"done", "timeout", "raise"}

\* Outcomes of run([sdkmanager, system_image], timeout=600): exit 0, a
\* non-zero exit whose stderr says "already installed", another non-zero
\* exit, a timeout, or another exception.
DownloadOutcomes == {"zero", "already_installed", "nonzero", "timeout", "raise"}

\* sdkmanager can report "already installed" only for an image the SDK holds.
DownloadPossible(inst, api_level, dl) ==
    dl = "already_installed" => api_level \in inst

\* Outcomes of run([avdmanager, 'create', 'avd', ...], timeout=30).
CreateOutcomes == {"zero", "nonzero", "raise"}

\* The outcomes <<lic, dl>> of the tools of one download_system_image call:
\* the download is reached only after the license acceptance ran.
DownloadRuns(inst, api_level) ==
    IF ~IsSupported(api_level) THEN {<<"not_run", "not_run">>}
    ELSE {<<lic, "not_run">> : lic \in LicenseOutcomes \ {"done"}}
         \cup {<<"done", dl>> :
                  dl \in {o \in DownloadOutcomes :
                             DownloadPossible(inst, api_level, o)}}

\* A download_system_image that issues the download command a second time
\* when the first has not succeeded.
download_retried(inst, api_level, lic, dl) ==
    [ret |-> IsSupported(api_level) /\ lic = "done"
                /\ dl \in {"zero", "already_installed"},
     tools |-> IF ~IsSupported(api_level) THEN <<>>
               ELSE IF lic # "done" THEN <<"yes", "sdkmanager --licenses">>
               ELSE IF dl \in {"zero", "already_installed"}
               THEN <<"yes", "sdkmanager --licenses", "sdkmanager image">>
               ELSE <<"yes", "sdkmanager --licenses", "sdkmanager image",
                      "sdkmanager image">>,
     installed |-> IF IsSupported(api_level) /\ lic = "done" /\ dl = "zero"
                   THEN inst \cup {api_level} ELSE inst]

\* The value download_system_image returns, the tools it ran, in order, and
\* the images the SDK holds afterwards.
download_system_image(inst, api_level, lic, dl) ==
    IF ~IsSupported(api_level)
    THEN [ret |-> FALSE, tools |-> <<>>, installed |-> inst]
    ELSE IF lic # "done"
    THEN [ret |-> FALSE, tools |-> <<"yes", "sdkmanager --licenses">>,
          installed |-> inst]
    ELSE [ret |-> dl \in {"zero", "already_installed"},
          tools |-> <<"yes", "sdkmanager --licenses", "sdkmanager image">>,
          installed |-> IF dl = "zero" THEN inst \cup {api_level} ELSE inst]

\* ---- config.ini.  A text is a sequence of atoms: Pair(k, v) is "k=v" and
\* Raw(t) is a text t without '='.  A line, as readlines yields it, is the
\* atoms of its text and whether it ends with a newline.
Pair(k, v) == [k |-> k, v |-> v]

Raw(t) == [k |-> "", v |-> t]

Line(atoms, nl) == [atoms |-> atoms, nl |-> nl]

\* A config.ini with these lines, and no config.ini.
File(lines) == [exists |-> TRUE, fault |-> "none", lines |-> lines]

NoFile == [exists |-> FALSE, fault |-> "none", lines |-> <<>>]

\* What can be wrong with a config.ini that exists: open(config_file, 'r')
\* raises (no permission); reading its lines raises (bytes that do not
\* decode); open(config_file, 'w') raises (read-only).
FaultKinds == {"open", "decode", "write"}

Faulty(kind, lines) == [exists |-> TRUE, fault |-> kind, lines |-> lines]

\* _configure_avd reaches the end of writelines.
Rewritable(file) == file.exists /\ file.fault = "none"

\* config_updates, in the order of the dict, with memory = 2048,
\* gpu_mode = 'auto' and headless = True.
config_updates ==
    <<Pair("hw.ramSize", "2048"), Pair("hw.gpu.enabled", "yes"),
      Pair("hw.gpu.mode", "auto"), Pair("hw.keyboard", "yes"),
      Pair("hw.accelerometer", "yes"), Pair("hw.battery", "yes"),
      Pair("hw.camera.back", "virtualscene"), Pair("hw.camera.front", "emulated"),
      Pair("showDeviceFrame", "no")>>

UpdateKeys == {config_updates[i].k : i \in 1..Len(config_updates)}

\* config_updates[key]
UpdateValue(key) ==
    LET i == CHOOSE j \in 1..Len(config_updates) : config_updates[j].k = key
    IN config_updates[i].v

\* '=' in line
HasEq(line) == \E i \in 1..Len(line.atoms) : line.atoms[i].k # ""

\* line.split('=')[0].strip(), for a line that has an '=': the key of the
\* first atom when that atom is a pair; otherwise a text that begins with
\* the first atom's, which is none of the keys of config_updates ("").
LineKey(line) == line.atoms[1].k

\* updated_lines after the loop over lines
UpdatedLines(lines) ==
    [i \in 1..Len(lines) |->
        IF HasEq(lines[i]) /\ LineKey(lines[i]) \in UpdateKeys
        THEN Line(<<Pair(LineKey(lines[i]), UpdateValue(LineKey(lines[i])))>>, TRUE)
        ELSE lines[i]]

\* updated_keys after the loop over lines
UpdatedKeys(lines) ==
    {LineKey(lines[i]) : i \in {j \in 1..Len(lines) : HasEq(lines[j])}}
        \cap UpdateKeys

\* The lines appended for the keys not in updated_keys.
MissingLines(lines) ==
    LET missing == SelectSeq(config_updates,
                             LAMBDA u : u.k \notin UpdatedKeys(lines))
    IN [i \in 1..Len(missing) |-> Line(<<missing[i]>>, TRUE)]

\* The list _configure_avd passes to writelines.
configure_avd(lines) == UpdatedLines(lines) \o MissingLines(lines)

\* What readlines yields from the file that writelines(lines) left: a text
\* written without a newline runs into the text written after it.
RECURSIVE ReadLines(_)
ReadLines(lines) ==
    IF Len(lines) <= 1 THEN lines
    ELSE IF lines[1].nl THEN <<lines[1]>> \o ReadLines(Tail(lines))
    ELSE ReadLines(<<Line(lines[1].atoms \o lines[2].atoms, lines[2].nl)>>
                      \o Tail(Tail(lines)))

\* Texts of the lines of the config.ini that avdmanager leaves.
InputTexts ==
    {<<Pair("hw.ramSize", "1024")>>, <<Pair("hw.keyboard", "no")>>,
     <<Pair("disk.dataPartition.size", "6G")>>, <<Raw("# comment")>>}

\* The config.ini files avdmanager leaves: up to MaxLines lines, of which
\* only the last may lack its newline.
ConfigFiles ==
    UNION {{File([i \in 1..n |-> Line(f[i], i < n \/ nl)]) :
               f \in [1..n -> InputTexts], nl \in BOOLEAN} : n \in 0..MaxLines}

\* The config.ini files avdmanager leaves to the create_avd calls: those of
\* at most one line, none, or one that cannot be read or written.
CreatedFiles ==
    {f \in ConfigFiles : Len(f.lines) <= 1} \cup {NoFile}
        \cup {Faulty(kind, <<>>) : kind \in FaultKinds}

\* The outcome mk of avdmanager and the file it leaves, for one create_avd
\* call whose download_system_image returned downloaded.
CreateRuns(downloaded) ==
    IF ~downloaded THEN {<<"not_run", NoFile>>}
    ELSE {<<mk, NoFile>> : mk \in CreateOutcomes \ {"zero"}}
         \cup {<<"zero", file>> : file \in CreatedFiles}

\* The config.ini after _configure_avd, which returns at once when there is
\* no file and swallows the exception of a failed open or read.
Configured(file) ==
    IF ~Rewritable(file) THEN file
    ELSE File(ReadLines(configure_avd(file.lines)))

\* A create_avd that goes on to avdmanager whatever download_system_image
\* returned.
create_regardless(inst, cfg, api_level, lic, dl, mk, file) ==
    IF ~IsSupported(api_level)
    THEN [ret |-> FALSE, tools |-> <<>>, installed |-> inst, config |-> cfg,
          rewrote |-> FALSE, downloaded |-> "not_called"]
    ELSE LET d == download_system_image(inst, api_level, lic, dl)
         IN [ret |-> TRUE,
             tools |-> d.tools \o <<"avdmanager create avd">>
                          \o (IF Rewritable(file) THEN <<"write config.ini">>
                              ELSE <<>>),
             installed |-> d.installed,
             config |-> Configured(file),
             rewrote |-> Rewritable(file),
             downloaded |-> IF d.ret THEN "True" ELSE "False"]

\* The value create_avd returns, the tools it ran, the images the SDK holds
\* and the config.ini afterwards; file is the config.ini avdmanager leaves.
create_avd(inst, cfg, api_level, lic, dl, mk, file) ==
    IF ~IsSupported(api_level)
    THEN [ret |-> FALSE, tools |-> <<>>, installed |-> inst, config |-> cfg,
          rewrote |-> FALSE, downloaded |-> "not_called"]
    ELSE LET d == download_system_image(inst, api_level, lic, dl)
         IN IF ~d.ret
            THEN [ret |-> FALSE, tools |-> d.tools, installed |-> d.installed,
                  config |-> cfg, rewrote |-> FALSE, downloaded |-> "False"]
            ELSE IF mk # "zero"
            THEN [ret |-> FALSE, tools |-> Append(d.tools, "avdmanager create avd"),
                  installed |-> d.installed, config |-> cfg, rewrote |-> FALSE,
                  downloaded |-> "True"]
            ELSE [ret |-> TRUE,
                  tools |-> d.tools \o <<"avdmanager create avd">>
                               \o (IF Rewritable(file) THEN <<"write config.ini">>
                                   ELSE <<>>),
                  installed |-> d.installed,
                  config |-> Configured(file),
                  rewrote |-> Rewritable(file),
                  downloaded |-> "True"]

\* The keys of checks in check_prerequisites.
RequiredTools == {"adb", "emulator", "avdmanager", "sdkmanager"}

\* How subprocess.run(cmd, capture_output=True, timeout=5) of a version probe
\* ends: exit 0, a non-zero exit, TimeoutExpired, or the executable cannot
\* be launched (FileNotFoundError, PermissionError).
ProbeOutcomes == {"zero", "nonzero", "timeout", "not_launched"}

\* if not checks[tool] and tool in ['adb', 'sdkmanager']: the probe without
\* the path runs.
SecondProbeRuns(tool, first, exists) ==
    /\ first = "nonzero"
    /\ ~exists
    /\ tool \in {"adb", "sdkmanager"}

\* A tool reported available whenever its probe could be launched.
LaunchedMeansAvailable(tool, first, exists, second) == first # "not_launched"

\* checks[tool] after the body of the loop of check_prerequisites: first and
\* second are the outcomes of the probe with the path and of the probe
\* without it, exists is Path(path).exists().
CheckTool(tool, first, exists, second) ==
    IF first \in {"timeout", "not_launched"}
    THEN \* except Exception: checks[tool] = Path(path).exists()
         exists
    ELSE IF first = "zero" \/ exists THEN TRUE
    ELSE IF SecondProbeRuns(tool, first, exists)
    THEN IF second \in {"timeout", "not_launched"} THEN exists
         ELSE second = "zero"
    ELSE FALSE

\* What a check_prerequisites call gave: nothing yet.  outcome: "returned"
\* or "raised"; tools: per tool, the value of checks[tool], the outcomes of
\* its probes and whether its path exists.
NoChecks ==
    [outcome |-> "none",
     tools |-> [tool \in RequiredTools |->
                   [available |-> FALSE, first |-> "", exists |-> FALSE,
                    second |-> ""]]]

\* The probes of one tool in a check_prerequisites call: the first outcome,
\* whether the path exists, and the second outcome ("not_run" when the
\* second probe does not run).
ProbeRuns(tool) ==
    UNION {{<<first, exists, second>> :
               second \in IF SecondProbeRuns(tool, first, exists)
                          THEN ProbeOutcomes ELSE {"not_run"}} :
           first \in ProbeOutcomes, exists \in BOOLEAN}

\* What list_avds or _get_avd_info gave: nothing yet.  outcome: "returned"
\* or "raised"; avds: the infos returned; command: how 'emulator -list-avds'
\* went.
NoListing == [outcome |-> "none", avds |-> <<>>, command |-> ""]

\* No call made yet.  source is the config.ini the call's rewrite read;
\* downloaded is what the download_system_image call of create_avd returned;
\* listing is what a list_avds or _get_avd_info call gave.
NoToolCall ==
    [op |-> "", api_level |-> 0, was_installed |-> FALSE, ret |-> FALSE,
     tools |-> <<>>, rewrote |-> FALSE, source |-> <<>>,
     downloaded |-> "not_called", listing |-> NoListing, checks |-> NoChecks]

\* The caller awaits download_system_image(api_level).
DownloadCall ==
    /\ calls < MaxCalls
    /\ \E api_level \in ApiLevels :
       \E run \in DownloadRuns(installed, api_level) :
         /\ LET r == download_system_image(installed, api_level, run[1], run[2])
            IN /\ installed' = r.installed
               /\ lastCall' = [op |-> "download_system_image",
                               api_level |-> api_level,
                               was_installed |-> api_level \in installed,
                               ret |-> r.ret, tools |-> r.tools,
                               rewrote |-> FALSE, source |-> <<>>,
                               downloaded |-> "not_called",
                               listing |-> NoListing, checks |-> NoChecks]
    /\ calls' = calls + 1
    /\ UNCHANGED config
    /\ UNCHANGED <<lifeVars, execVars, textVars>>

\* create_avd awaits _configure_avd(name) on the config.ini found.
ConfigureCall ==
    /\ lastCall = NoToolCall
    /\ config' = Configured(config)
    /\ lastCall' = [NoToolCall EXCEPT !.op = "_configure_avd",
                                      !.rewrote = Rewritable(config),
                                      !.source = config.lines]
    /\ UNCHANGED <<installed, calls>>
    /\ UNCHANGED <<lifeVars, execVars, textVars>>

\* Largest number of lines of a config.ini that _get_avd_info reads.
MaxInfoLines == 2

\* image.sysdir.1 of a system image of api level 34.
AndroidImage == "system-images/android-34/google_apis/x86_64/"

\* Texts of the lines of the config.ini that _get_avd_info reads.
InfoTexts ==
    {<<Pair("image.sysdir.1", AndroidImage)>>,
     <<Pair("image.sysdir.1", "custom/x86_64/")>>,
     <<Pair("hw.ramSize", "1024")>>, <<Raw("# comment")>>}

\* The config.ini files list_avds and _get_avd_info meet: up to MaxInfoLines
\* lines, none, or one that cannot be read or written.
InfoFiles ==
    UNION {{File([i \in 1..n |-> Line(f[i], TRUE)]) : f \in [1..n -> InfoTexts]} :
               n \in 0..MaxInfoLines}
        \cup {NoFile} \cup {Faulty(kind, <<>>) : kind \in FaultKinds}

\* config.get(key, default) of the dict built from the lines that have an
\* '=': a later line overwrites an earlier one.
ConfigValue(lines, key, default) ==
    LET at == {i \in 1..Len(lines) : HasEq(lines[i]) /\ LineKey(lines[i]) = key}
    IN IF at = {} THEN default
       ELSE lines[CHOOSE i \in at : \A j \in at : j <= i].atoms[1].v

\* int(image_path.split('android-')[1].split('/')[0]) when 'android-' is in
\* image_path, otherwise None (0).
ImageApiLevel(image_path) == IF image_path = AndroidImage THEN 34 ELSE 0

\* _get_avd_info returned None.
NoInfo == [found |-> FALSE, name |-> "", api_level |-> 0, ram |-> ""]

\* _get_avd_info(name) on the config.ini file: None when there is no file,
\* None from its except clause when the open or the read raises, otherwise
\* the info.
get_avd_info(name, file) ==
    IF ~file.exists THEN NoInfo
    ELSE IF file.fault \in {"open", "decode"} THEN NoInfo
    ELSE [found |-> TRUE, name |-> name,
          api_level |-> ImageApiLevel(ConfigValue(file.lines, "image.sysdir.1", "")),
          ram |-> ConfigValue(file.lines, "hw.ramSize", "Unknown")]

\* How 'emulator -list-avds' ends: exit 0, a non-zero exit, or
\* subprocess.run raises.
ListCommandOutcomes == {"zero", "nonzero", "raise"}

\* list_avds() when the emulator knows the one definition name, whose
\* config.ini is file: the infos that are not None; [] when the command
\* does not exit 0 or raises.
list_avds(command, name, file) ==
    IF command # "zero" THEN <<>>
    ELSE IF get_avd_info(name, file).found THEN <<get_avd_info(name, file)>>
    ELSE <<>>

\* The caller awaits list_avds().
ListCall ==
    /\ calls < MaxCalls
    /\ \E command \in ListCommandOutcomes :
         lastCall' = [NoToolCall EXCEPT
                         !.op = "list_avds",
                         !.tools = <<"emulator -list-avds">>,
                         !.listing = [outcome |-> "returned",
                                      avds |-> list_avds(command, "dev_34", config),
                                      command |-> command]]
    /\ calls' = calls + 1
    /\ UNCHANGED <<installed, config>>
    /\ UNCHANGED <<lifeVars, execVars, textVars>>

\* The caller awaits _get_avd_info(name).
InfoCall ==
    /\ calls < MaxCalls
    /\ lastCall' = [NoToolCall EXCEPT
                       !.op = "_get_avd_info",
                       !.listing =
                           [outcome |-> "returned",
                            avds |-> IF get_avd_info("dev_34", config).found
                                     THEN <<get_avd_info("dev_34", config)>>
                                     ELSE <<>>,
                            command |-> ""]]
    /\ calls' = calls + 1
    /\ UNCHANGED <<installed, config>>
    /\ UNCHANGED <<lifeVars, execVars, textVars>>

\* The caller awaits check_prerequisites().
CheckCall ==
    /\ lastCall = NoToolCall
    /\ \E adb \in ProbeRuns("adb"), emulator \in ProbeRuns("emulator"),
          avdmanager \in ProbeRuns("avdmanager"),
          sdkmanager \in ProbeRuns("sdkmanager") :
         LET p == [tool \in RequiredTools |->
                      IF tool = "adb" THEN adb
                      ELSE IF tool = "emulator" THEN emulator
                      ELSE IF tool = "avdmanager" THEN avdmanager
                      ELSE sdkmanager]
         IN
         lastCall' = [NoToolCall EXCEPT
                         !.op = "check_prerequisites",
                         !.checks =
                             [outcome |-> "returned",
                              tools |-> [tool \in RequiredTools |->
                                  [available |-> CheckTool(tool, p[tool][1],
                                                           p[tool][2], p[tool][3]),
                                   first |-> p[tool][1],
                                   exists |-> p[tool][2],
                                   second |-> p[tool][3]]]]]
    /\ calls' = calls + 1
    /\ UNCHANGED <<installed, config>>
    /\ UNCHANGED <<lifeVars, execVars, textVars>>

\* The caller awaits create_avd(name, api_level).
CreateCall ==
    /\ calls < MaxCalls
    /\ \E api_level \in ApiLevels :
       \E run \in DownloadRuns(installed, api_level) :
       \E made \in CreateRuns(download_system_image(installed, api_level,
                                                     run[1], run[2]).ret) :
         /\ LET file == made[2]
                r == create_avd(installed, config, api_level, run[1], run[2],
                                made[1], file)
            IN /\ installed' = r.installed
               /\ config' = r.config
               /\ lastCall' = [op |-> "create_avd",
                               api_level |-> api_level,
                               was_installed |-> api_level \in installed,
                               ret |-> r.ret, tools |-> r.tools,
                               rewrote |-> r.rewrote,
                               source |-> IF r.rewrote THEN file.lines ELSE <<>>,
                               downloaded |-> r.downloaded,
                               listing |-> NoListing, checks |-> NoChecks]
    /\ calls' = calls + 1
    /\ UNCHANGED <<lifeVars, execVars, textVars>>

-----------------------------------------------------------------------------
(* CommandRunner: verify_output_pattern.  A text is the sequence of its      *)
(* characters here.                                                          *)

\* result.stdout[:200]
OutputLimit == 200

\* Longest pattern, and longest of the short outputs, in characters.
MaxPatternLen == 2

MaxOutputLen == 2

Letters == {"a", "A", "b"}

\* The texts of 1..n letters.
Words(n) == UNION {[1..k -> Letters] : k \in 1..n}

\* The expected_pattern arguments: literal texts.
Patterns == Words(MaxPatternLen)

\* The text of n characters ch.
Repeat(ch, n) == [i \in 1..n |-> ch]

\* What the command prints: nothing, a short text, or a long one of about
\* OutputLimit characters.
Outputs ==
    {<<>>} \cup Words(MaxOutputLen)
        \cup {Repeat("b", n) : n \in (OutputLimit - 1)..(OutputLimit + 1)}

\* The lower-case form of a character.
Lower(ch) == IF ch = "A" THEN "a" ELSE ch

\* A search that tells the cases apart.
SearchExact(pattern, text) ==
    \E i \in 0..(Len(text) - Len(pattern)) :
        \A j \in 1..Len(pattern) : text[i + j] = pattern[j]

\* re.search(expected_pattern, result.stdout, re.IGNORECASE), for a literal
\* pattern
Search(pattern, text) ==
    \E i \in 0..(Len(text) - Len(pattern)) :
        \A j \in 1..Len(pattern) : Lower(text[i + j]) = Lower(pattern[j])

\* text[:n]
Prefix(text, n) == SubSeq(text, 1, IF Len(text) < n THEN Len(text) ELSE n)

\* The pair verify_output_pattern returns for the result of its
\* execute_command call.
verify_output_pattern(result, pattern) ==
    IF ~result.success
    THEN [matched |-> FALSE, message |-> <<"Command failed: ">> \o result.stderr]
    ELSE IF Search(pattern, result.stdout)
    THEN [matched |-> TRUE, message |-> <<"Pattern matched">>]
    ELSE [matched |-> FALSE,
          message |-> <<"Pattern not found. Output: ">>
                          \o Prefix(result.stdout, OutputLimit) \o <<"...">>]

\* No verify_output_pattern call yet.  executes counts its execute_command
\* calls; result is what execute_command returned to it.
NoVerify ==
    [pc |-> "idle", pattern |-> <<>>, executes |-> 0, result |-> NoResult,
     matched |-> FALSE, message |-> <<>>]

\* verify_output_pattern is called: up to the await of execute_command.
VerifyBegin ==
    /\ verify.pc = "idle"
    /\ verify' = [verify EXCEPT !.pc = "executing", !.executes = @ + 1]
    /\ UNCHANGED formatted
    /\ UNCHANGED <<lifeVars, execVars, defVars>>

\* execute_command returns the result of its last attempt, whose process
\* printed text when it ran, and verify_output_pattern returns.
VerifyEnd ==
    /\ verify.pc = "executing"
    /\ \E outcome \in AttemptOutcomes, text \in Outputs :
         LET r == run_command(0, "main", 0, outcome, DefaultTimeout,
                              IF outcome = "spawn_error" THEN <<>>
                              ELSE IF outcome = "timeout"
                              THEN <<"spawn", "kill", "wait">>
                              ELSE <<"spawn", "exit">>)
             result == IF outcome \in {"zero", "nonzero"}
                       THEN [r EXCEPT !.stdout = text] ELSE r
             v == verify_output_pattern(result, verify.pattern)
         IN /\ outcome \notin {"zero", "nonzero"} => text = <<>>
            /\ verify' = [verify EXCEPT !.pc = "returned", !.result = result,
                                        !.matched = v.matched,
                                        !.message = v.message]
    /\ UNCHANGED formatted
    /\ UNCHANGED <<lifeVars, execVars, defVars>>

\* The caller calls clear_history(): self.command_history.clear().  It is
\* not a coroutine, so it runs between the steps of the execute_command
\* calls; on an empty history it changes nothing.
ClearHistory ==
    /\ command_history # <<>>
    /\ command_history' = <<>>
    /\ UNCHANGED <<retry_attempts, exec, finished>>
    /\ UNCHANGED <<lifeVars, defVars, textVars>>

-----------------------------------------------------------------------------
(* CommandRunner: _format_command.  A command is the sequence of its words,  *)
(* which single spaces separate; a word is the sequence of its parts, in     *)
(* which "-" and "s" are parts of their own.                                 *)

AdbWord == <<"adb">>

FlagWord == <<"-", "s">>

\* The word of a serial.
SerialWord(s) ==
    IF s = "emulator-5554" THEN <<"emulator", "-", "5554">>
    ELSE <<"emulator", "-", "5556">>

\* The words of the commands given: the tool's name, the flag, a serial, a
\* subcommand, an argument, and an argument that holds the flag's characters.
CommandWords ==
    {AdbWord, FlagWord, SerialWord("emulator-5556"), <<"shell">>, <<"ls">>,
     <<"my", "-", "s", "cript">>}

\* Longest command, in words.
MaxWords == 3

\* The command arguments.
Commands == UNION {[1..n -> CommandWords] : n \in 1..MaxWords}

\* '-s' in word
HasFlagChars(word) ==
    \E i \in 1..(Len(word) - 1) : word[i] = "-" /\ word[i + 1] = "s"

\* '-s' in command
HasFlag(command) == \E i \in 1..Len(command) : HasFlagChars(command[i])

\* The command with its leading 'adb ' left in place.
KeepAdb(command) == command

\* if command.startswith('adb '): command = command[4:]
StripAdb(command) ==
    IF Len(command) >= 2 /\ command[1] = AdbWord THEN Tail(command) ELSE command

\* _format_command(command, serial)
format_command(command, s) ==
    IF HasFlag(StripAdb(command))
    THEN <<AdbWord>> \o StripAdb(command)
    ELSE <<AdbWord, FlagWord, SerialWord(s)>> \o StripAdb(command)

NoFormat == [command |-> <<>>, serial |-> NoSerial, out |-> <<>>]

\* execute_command formats the command it is given.
FormatCall ==
    /\ formatted = NoFormat
    /\ \E command \in Commands, s \in Serials :
         formatted' = [command |-> command, serial |-> s,
                       out |-> format_command(command, s)]
    /\ UNCHANGED verify
    /\ UNCHANGED <<lifeVars, execVars, defVars>>

-----------------------------------------------------------------------------
InitCalls ==
    /\ pc = [t \in Tasks |-> "idle"]
    /\ avd_name = [t \in Tasks |-> ""]
    /\ devices_before = [t \in Tasks |-> {}]
    /\ waited = [t \in Tasks |-> 0]
    /\ serial = [t \in Tasks |-> NoSerial]
    /\ ret = [t \in Tasks |-> "pending"]
    /\ why = [t \in Tasks |-> ""]
    /\ ops = [t \in Tasks |-> <<>>]
    /\ rec = [t \in Tasks |-> NoRecord]
    /\ emulators = [s \in Serials |-> 0]
    /\ process = [t \in Tasks |-> "unspawned"]
    /\ attached = [s \in Serials |-> 0]
    /\ lastStop = NoStop
    /\ stops = 0
    /\ lookup = [t \in Tasks |-> NoLookup]

InitLife == InitCalls /\ boot = [t \in Tasks |-> NoBoot(FALSE)]

\* A CommandRunner as constructed with the default retry_attempts.
InitRunner ==
    /\ retry_attempts = DefaultRetryAttempts
    /\ command_history = <<>>
    /\ exec = [c \in Calls |-> NoCall]
    /\ finished = NoneFinished(FALSE)

\* An SDK without system images and no definition created.
InitDefs ==
    /\ installed = {}
    /\ config = NoFile
    /\ lastCall = NoToolCall
    /\ calls = 0

\* No verify_output_pattern call made and no command formatted.
InitText == verify = NoVerify /\ formatted = NoFormat

Init == InitLife /\ InitRunner /\ InitDefs /\ InitText

\* Two start_emulator calls running concurrently on one manager.
Next ==
    \E t \in Tasks :
        \/ StartBegin(t)
        \/ DiscoveryPoll(t)
        \/ BootPoll(t)
        \/ DeviceAppears(t)

Spec == Init /\ [][Next]_vars

\* One start_emulator call, and a caller that stops identifiers.
NextStop ==
    \/ StartBegin(1)
    \/ DiscoveryPoll(1)
    \/ BootPoll(1)
    \/ DeviceAppears(1)
    \/ \E s \in Serials : StopCall(s)

SpecStop == Init /\ [][NextStop]_vars

\* The same, with the event loop resuming a start_emulator call when its
\* sleep is over: every adb command the call then runs is a subprocess.run
\* with a timeout, so the step ends.
SpecLive ==
    /\ Init
    /\ [][NextStop]_vars
    /\ WF_vars(DiscoveryPoll(1))
    /\ WF_vars(BootPoll(1))

\* The same, with the probes of _wait_for_boot observed.
InitBoot ==
    /\ InitCalls
    /\ boot = [t \in Tasks |-> NoBoot(TRUE)]
    /\ InitRunner
    /\ InitDefs
    /\ InitText

SpecBoot == InitBoot /\ [][NextStop]_vars

\* Overlapping execute_command calls on one runner constructed with any
\* retry_attempts up to MaxRetryAttempts.
InitExec ==
    /\ InitLife
    /\ retry_attempts \in 0..MaxRetryAttempts
    /\ command_history = <<>>
    /\ exec = [c \in Calls |-> NoCall]
    /\ finished = NoneFinished(FALSE)
    /\ InitDefs
    /\ InitText

NextExec ==
    \E c \in Calls :
        \/ ExecuteBegin(c)
        \/ AttemptEnd(c)
        \/ TimeoutDrained(c)
        \/ Backoff(c)

SpecExec == InitExec /\ [][NextExec]_vars

\* The same calls on a runner with the default retry_attempts, with the
\* order in which the commands end observed.
InitHistory ==
    /\ InitLife
    /\ retry_attempts = DefaultRetryAttempts
    /\ command_history = <<>>
    /\ exec = [c \in Calls |-> NoCall]
    /\ finished = NoneFinished(TRUE)
    /\ InitDefs
    /\ InitText

SpecHistory == InitHistory /\ [][NextExec]_vars

\* The same calls on a runner with the default retry_attempts, and a caller
\* that clears the history.
InitClear ==
    /\ InitLife
    /\ retry_attempts = DefaultRetryAttempts
    /\ command_history = <<>>
    /\ exec = [c \in Calls |-> NoCall]
    /\ finished = NoneFinished(FALSE)
    /\ InitDefs
    /\ InitText

NextClear ==
    \/ \E c \in Calls :
          \/ ExecuteBegin(c)
          \/ AttemptEnd(c)
          \/ TimeoutDrained(c)
          \/ Backoff(c)
    \/ ClearHistory

SpecClear == InitClear /\ [][NextClear]_vars

\* download_system_image and create_avd calls on one manager.
NextCreate ==
    \/ DownloadCall
    \/ CreateCall

SpecCreate == Init /\ [][NextCreate]_vars

\* _configure_avd applied to each config.ini of up to MaxLines lines.
InitConfig ==
    /\ InitLife
    /\ InitRunner
    /\ installed = {}
    /\ config \in ConfigFiles \cup {NoFile}
    /\ lastCall = NoToolCall
    /\ calls = 0
    /\ InitText

NextConfig == ConfigureCall

SpecConfig == InitConfig /\ [][NextConfig]_vars

\* One verify_output_pattern call with each pattern.
InitVerify ==
    /\ InitLife
    /\ InitRunner
    /\ InitDefs
    /\ verify \in {[NoVerify EXCEPT !.pattern = p] : p \in Patterns}
    /\ formatted = NoFormat

NextVerify ==
    \/ VerifyBegin
    \/ VerifyEnd

SpecVerify == InitVerify /\ [][NextVerify]_vars

\* _format_command applied to each command and serial.
NextFormat == FormatCall

SpecFormat == Init /\ [][NextFormat]_vars

\* The manager after start_emulator("dev_34") has returned its record, the
\* emulator having taken emulator-5554 and booted at the first attempt.
InitRunning ==
    /\ pc = [t \in Tasks |-> IF t = 1 THEN "returned" ELSE "idle"]
    /\ avd_name = [t \in Tasks |-> IF t = 1 THEN "dev_34" ELSE ""]
    /\ devices_before = [t \in Tasks |-> {}]
    /\ waited = [t \in Tasks |-> 0]
    /\ serial = [t \in Tasks |-> IF t = 1 THEN "emulator-5554" ELSE NoSerial]
    /\ ret = [t \in Tasks |-> IF t = 1 THEN "emulator" ELSE "pending"]
    /\ why = [t \in Tasks |-> IF t = 1 THEN "booted" ELSE ""]
    /\ ops = [t \in Tasks |-> IF t = 1 THEN <<Op("spawn", NoSerial, 1)>> ELSE <<>>]
    /\ rec = [t \in Tasks |->
                IF t = 1
                THEN [name |-> "dev_34", serial |-> "emulator-5554",
                      api_level |-> AvdApiLevel("dev_34"), status |-> "running",
                      start_time |-> "now", process_id |-> 1,
                      trail |-> <<"starting", "running">>]
                ELSE NoRecord]
    /\ emulators = [s \in Serials |-> IF s = "emulator-5554" THEN 1 ELSE 0]
    /\ process = [t \in Tasks |-> IF t = 1 THEN "alive" ELSE "unspawned"]
    /\ attached = [s \in Serials |-> IF s = "emulator-5554" THEN 1 ELSE 0]
    /\ lastStop = NoStop
    /\ stops = 0
    /\ lookup = [t \in Tasks |->
                   IF t = 1
                   THEN [listing |-> "listed", avds |-> ListedAvds, snapshot |-> TRUE]
                   ELSE NoLookup]
    /\ boot = [t \in Tasks |-> NoBoot(FALSE)]

\* A second start_emulator call on a manager that holds a running record.
InitSecond ==
    /\ InitRunning
    /\ InitRunner
    /\ InitDefs
    /\ InitText

NextSecond ==
    \/ StartBegin(2)
    \/ DiscoveryPoll(2)
    \/ BootPoll(2)
    \/ DeviceAppears(2)

SpecSecond == InitSecond /\ [][NextSecond]_vars

\* check_prerequisites calls on a manager that holds a running record, with
\* or without an installed image and a config.ini.
InitCheck ==
    /\ InitRunning
    /\ InitRunner
    /\ installed \in {{}, {34}}
    /\ config \in {NoFile, File(<<>>)}
    /\ lastCall = NoToolCall
    /\ calls = 0
    /\ InitText

NextCheck == CheckCall

SpecCheck == InitCheck /\ [][NextCheck]_vars

\* list_avds and _get_avd_info calls on a definition whose config.ini is
\* any of InfoFiles.
InitList ==
    /\ InitLife
    /\ InitRunner
    /\ installed = {}
    /\ config \in InfoFiles
    /\ lastCall = NoToolCall
    /\ calls = 0
    /\ InitText

NextList ==
    \/ ListCall
    \/ InfoCall

SpecList == InitList /\ [][NextList]_vars

\* One start_emulator call, and a caller that stops all emulators.
NextStopAll ==
    \/ StartBegin(1)
    \/ DiscoveryPoll(1)
    \/ BootPoll(1)
    \/ DeviceAppears(1)
    \/ StopAllCall

SpecStopAll == Init /\ [][NextStopAll]_vars

\* One start_emulator call and one create_avd call on a manager.
InitLaunch ==
    /\ InitLife
    /\ InitRunner
    /\ installed = {}
    /\ config = NoFile
    /\ lastCall = NoToolCall
    /\ calls = MaxCalls - 1
    /\ InitText

NextLaunch ==
    \/ StartBegin(1)
    \/ DiscoveryPoll(1)
    \/ BootPoll(1)
    \/ DeviceAppears(1)
    \/ CreateCall

SpecLaunch == InitLaunch /\ [][NextLaunch]_vars

-----------------------------------------------------------------------------
(* Properties of the lifecycle *)

\* The record of call t exists and no stop_emulator has removed it.
Live(r) ==
    /\ r.status # "absent"
    /\ \A i \in 1..Len(r.trail) : r.trail[i] # "stopped"

\* C1: two concurrent starts of distinct definitions that both return a
\* record return records with different identifiers, both present in the
\* active table; and no two records that start created, and stop has not
\* removed, carry the same identifier (stated here for the records of calls
\* that have not failed, whose records are meant to stay).
C1_SeparateRecords ==
    /\ \A t, u \in Tasks :
         (t # u /\ ret[t] = "emulator" /\ ret[u] = "emulator"
              /\ avd_name[t] # avd_name[u])
         => /\ rec[t].serial # rec[u].serial
            /\ emulators[rec[t].serial] = t
            /\ emulators[rec[u].serial] = u
    /\ \A t, u \in Tasks :
         (t # u /\ Live(rec[t]) /\ Live(rec[u])
              /\ ret[t] # "None" /\ ret[u] # "None")
         => rec[t].serial # rec[u].serial

\* The status sequences the lifecycle permits.
LegalTrails ==
    {<<>>, <<"starting">>, <<"starting", "running">>,
     <<"starting", "running", "stopping">>,
     <<"starting", "running", "stopping", "stopped">>,
     <<"starting", "stopped">>}

\* C2: the values a record's status takes follow starting -> running ->
\* stopping -> stopped, with starting -> stopped as the only shortcut.
C2_StatusOrder == \A t \in Tasks : rec[t].trail \in LegalTrails

\* C3: once start has returned None, the active table holds no record that
\* this start created.
C3_NoRecordAfterNone ==
    \A t \in Tasks :
        ret[t] = "None" => \A s \in Serials : emulators[s] # t

\* C4: when start returns None after it discovered an identifier, it has
\* issued the graceful kill against that identifier and then the forced
\* termination of the process it spawned.
C4_StopOnFailure ==
    \A t \in Tasks :
        (ret[t] = "None" /\ serial[t] # NoSerial)
        => \E i, j \in 1..Len(ops[t]) :
             /\ i < j
             /\ ops[t][i] = Op("emu_kill", serial[t], 0)
             /\ ops[t][j] = Op("kill", NoSerial, t)

\* Some call has issued a stop against s (o is the value of ops).
StopIssued(o, s) ==
    \E u \in Tasks : \E i \in 1..Len(o[u]) : o[u][i] = Op("emu_kill", s, 0)

\* C5: at the step at which start returns a record, an identifier absent from
\* devices_before was discovered and its boot confirmed, the record has status
\* running and holds that identifier, the definition's api level, a start time
\* and the spawned process's handle, and, unless a stop was issued against the
\* identifier, it is the record the active table holds for the identifier.
C5_ReturnedRecord ==
    [][\A t \in Tasks :
         (ret[t] = "pending" /\ ret'[t] = "emulator")
         => /\ serial'[t] \in Serials \ devices_before'[t]
            /\ why'[t] = "booted"
            /\ rec'[t].status = "running"
            /\ rec'[t].serial = serial'[t]
            /\ rec'[t].name = avd_name'[t]
            /\ rec'[t].api_level = AvdApiLevel(avd_name'[t])
            /\ rec'[t].start_time = "now"
            /\ rec'[t].process_id = t
            /\ (~StopIssued(ops', serial'[t]) => emulators'[serial'[t]] = t)]_vars

\* C6: a stop that finds a record with a known process handle issues the
\* graceful kill and then the forced termination of that process, whatever
\* the outcome of the graceful command.
C6_ForcedAfterGraceful ==
    lastStop.handle # 0
    => lastStop.issued = <<Op("emu_kill", lastStop.serial, 0),
                           Op("kill", NoSerial, lastStop.handle)>>

\* C7: every stop returns True.
C7_StopSucceeds == lastStop.serial # NoSerial => lastStop.ret = "True"

\* C14: the identifier _wait_for_new_device returns to a start is not in the
\* devices_before that start took before it spawned its process, and is in
\* adb's device list at the poll that returns it.
C14_DiscoveredIsNew ==
    [][\A t \in Tasks :
         (serial[t] = NoSerial /\ serial'[t] # NoSerial)
         => /\ serial'[t] \notin devices_before[t]
            /\ serial'[t] \in ConnectedDevices(attached, "devices")]_vars

\* A start whose devices_before was not empty has discovered an identifier.
C14_Witness ==
    \E t \in Tasks : serial[t] # NoSerial /\ devices_before[t] # {}

\* C15: _wait_for_boot returns True only on an attempt, made while waited is
\* below the timeout, in which the property read "1" and the package listing
\* succeeded; a "1" read in an earlier attempt does not count, and a start
\* returns a record only when _wait_for_boot returned True.
C15_BootInOneAttempt ==
    \A t \in Tasks :
        /\ boot[t].result = "True"
           => /\ boot[t].last = <<"1", "ok">>
              /\ boot[t].at < BootTimeout
        /\ ret[t] = "emulator" => boot[t].result = "True"
        /\ ~boot[t].packages_seen

\* _wait_for_boot has returned True on a later attempt than one in which the
\* property read "1" and the package listing failed.
C15_Witness ==
    \E t \in Tasks :
        /\ boot[t].result = "True"
        /\ boot[t].property_seen
        /\ boot[t].at > 0

\* C16: a start to which no new identifier appeared before the deadline of
\* _wait_for_new_device has terminated the process it spawned and returned
\* None, and up to the end of the discovery the start has created no record:
\* none exists for it, none ever had a status, and the active table holds none.
C16_DiscoveryTimeout ==
    \A t \in Tasks :
        /\ why[t] = "discovery_timeout"
           => /\ ret[t] = "None"
              /\ process[t] = "terminated"
              /\ ops[t] = <<Op("spawn", NoSerial, t), Op("terminate", NoSerial, t)>>
              /\ serial[t] = NoSerial
        /\ (pc[t] \in {"idle", "wait_new_device"} \/ why[t] = "discovery_timeout")
           => /\ rec[t] = NoRecord
              /\ \A s \in Serials : emulators[s] # t

\* A start has returned on the expiry of the discovery deadline.
C16_Witness == \E t \in Tasks : why[t] = "discovery_timeout"

-----------------------------------------------------------------------------
(* Properties of the retry loop and the history *)

\* The number of command_history entries produced by call c.
EntriesOf(c) ==
    Cardinality({i \in 1..Len(command_history) : command_history[i].call = c})

\* Call c has returned from execute_command(capture_screenshot=False) on a
\* runner with retry_attempts = 2, and its attempts succeeded as in log.
ReturnedAfter(c, log) ==
    /\ exec[c].pc = "returned"
    /\ retry_attempts = 2
    /\ ~exec[c].capture_screenshot
    /\ exec[c].mainlog = log

\* The only command_history entry of call c is the result it returned.
OnlyEntryIsReturned(c) ==
    /\ EntriesOf(c) = 1
    /\ \A i \in 1..Len(command_history) :
         command_history[i].call = c => command_history[i] = exec[c].ret

LoopSoFar(log, n) ==
    /\ Len(log) <= n
    /\ \A i \in 1..(Len(log) - 1) : ~log[i]

\* C10: for retry_attempts >= 1, a call runs attempts until the first success
\* or until retry_attempts of them have run: no attempt follows a success,
\* no more than retry_attempts are run, and the result returned is that of
\* the last attempt run.
C10_RetryLoop ==
    \A c \in Calls :
        LET e == exec[c]
            k == Len(e.mainlog)
        IN /\ LoopSoFar(e.log, retry_attempts)
           /\ LoopSoFar(e.mainlog, retry_attempts)
           /\ e.pc \in {"running", "killed", "backoff"} =>
                /\ \A i \in 1..Len(e.log) : ~e.log[i]
                /\ Len(e.log) < retry_attempts
           /\ e.pc \in {"running", "killed"} => e.attempt = Len(e.log)
           /\ e.pc = "returned" =>
                /\ k >= 1
                /\ e.mainlog[k] \/ k = retry_attempts
                /\ e.ret.call = c
                /\ e.ret.command = "main"
                /\ e.ret.attempt = k - 1
                /\ e.ret.success = e.mainlog[k]

\* A call that needed every one of its (at least two) attempts has returned
\* the success of the last one.
C10_Witness ==
    \E c \in Calls :
        /\ exec[c].pc = "returned"
        /\ retry_attempts >= 2
        /\ Len(exec[c].mainlog) = retry_attempts
        /\ exec[c].ret.success

-----------------------------------------------------------------------------
(* Properties of the results *)

\* The CommandResults produced so far that are still held somewhere: in the
\* history, or by a call as its current, own or returned result.
Results ==
    ({command_history[i] : i \in 1..Len(command_history)}
       \cup {exec[c].result : c \in Calls}
       \cup {exec[c].main : c \in Calls}
       \cup {exec[c].ret : c \in Calls}) \ {NoResult}

\* C11: the result of an attempt whose process was still running when the
\* timeout expired has return_code -1, success False, an empty stdout and a
\* stderr that names the timeout in force, and it is built only after the
\* process was killed and its termination awaited: while the termination is
\* awaited the attempt has no result yet.
C11_TimeoutResult ==
    /\ \A r \in Results :
         r.outcome = "timeout"
         => /\ r.return_code = -1
            /\ ~r.success
            /\ r.stdout = <<>>
            /\ r.stderr = <<"Command timeout after ",
                            CommandTimeout(r.command, exec[r.call].timeout),
                            " seconds">>
            /\ r.process = <<"spawn", "kill", "wait">>
    /\ \A c \in Calls :
         exec[c].pc = "killed"
         => /\ exec[c].process = <<"spawn", "kill">>
            /\ \A r \in Results :
                 ~(r.call = c /\ r.command = exec[c].command
                              /\ r.attempt = exec[c].attempt)

\* A call given its own timeout has returned the result of a timed-out
\* attempt, and so has one that ran under the runner's timeout.
C11_Witness ==
    /\ \E c \in Calls :
         /\ exec[c].pc = "returned"
         /\ exec[c].timeout = 5
         /\ exec[c].ret.outcome = "timeout"
         /\ exec[c].ret.stderr[2] = 5
    /\ \E i \in 1..Len(command_history) :
         /\ command_history[i].outcome = "timeout"
         /\ command_history[i].stderr[2] = DefaultTimeout

\* C12: every CommandResult produced has success true exactly when its
\* return_code is 0, and the results built for a timeout or for an execution
\* error have success False and return_code -1.
C12_SuccessIffZero ==
    \A r \in Results :
        /\ r.success <=> (r.return_code = 0)
        /\ r.outcome \in {"timeout", "spawn_error"}
           => (~r.success /\ r.return_code = -1)

\* The history holds a result of each kind.
C12_Witness ==
    \A outcome \in AttemptOutcomes :
        \E i \in 1..Len(command_history) : command_history[i].outcome = outcome

\* C13: execute_command never raises and always returns a CommandResult,
\* whatever the outcomes of its attempts and for every retry_attempts >= 0.
C13_NeverRaises ==
    \A c \in Calls :
        /\ exec[c].pc # "raised"
        /\ exec[c].pc = "returned" => exec[c].ret \in Results

-----------------------------------------------------------------------------
(* Properties of capture_screenshot *)

\* The places in the history of the results call c stored for command.
StepEntries(c, command) ==
    {i \in 1..Len(command_history) :
        command_history[i].call = c /\ command_history[i].command = command}

\* Call c ran the step command, and it ended in success.
StepSucceeded(c, command) ==
    \E i \in StepEntries(c, command) : command_history[i].success

\* Call c has returned from execute_command(capture_screenshot=True).
CaptureReturned(c) == exec[c].pc = "returned" /\ exec[c].capture_screenshot

\* C20 (amended): capture_screenshot returns a host path exactly when the
\* capture on the device and then the pull to the host succeeded; the pull is
\* run only after a successful capture and the removal only after a successful
\* pull, each step once and in that order; the result of the removal does not
\* change what is returned; and the call does not raise.
C20_PathAfterPull ==
    \A c \in Calls :
        /\ (exec[c].capture_screenshot /\ retry_attempts >= 1)
           => exec[c].pc # "raised"
        /\ CaptureReturned(c)
           => /\ (exec[c].ret.screenshot_path # "None")
                   <=> (StepSucceeded(c, "screencap") /\ StepSucceeded(c, "pull"))
              /\ Cardinality(StepEntries(c, "screencap")) = 1
              /\ Cardinality(StepEntries(c, "pull")) =
                   (IF StepSucceeded(c, "screencap") THEN 1 ELSE 0)
              /\ Cardinality(StepEntries(c, "rm")) =
                   (IF StepSucceeded(c, "pull") THEN 1 ELSE 0)
              /\ \A i \in StepEntries(c, "screencap"), j \in StepEntries(c, "pull") :
                   i < j
              /\ \A i \in StepEntries(c, "pull"), j \in StepEntries(c, "rm") :
                   i < j

\* A call has returned a path although the removal on the device failed.
C20_Witness ==
    \E c \in Calls :
        /\ CaptureReturned(c)
        /\ exec[c].ret.screenshot_path # "None"
        /\ StepEntries(c, "rm") # {}
        /\ ~StepSucceeded(c, "rm")

\* C20 (as claimed): a path is returned only if the capture, the pull and the
\* removal all succeeded.
C20_PathOnlyIfAllThree ==
    \A c \in Calls :
        (CaptureReturned(c) /\ exec[c].ret.screenshot_path # "None")
        => /\ StepSucceeded(c, "screencap")
           /\ StepSucceeded(c, "pull")
           /\ StepSucceeded(c, "rm")

-----------------------------------------------------------------------------
(* Properties of create_avd, download_system_image and _configure_avd *)

\* C17: a create_avd call for an api level outside {31, 33, 34, 35, 36}
\* returns False and runs no tool: neither the license acceptance and the
\* image download, nor avdmanager, nor the rewrite of config.ini; the images
\* and the config.ini are as they were before the call.
C17_UnsupportedRejected ==
    [][(calls' = calls + 1 /\ lastCall'.op = "create_avd"
           /\ lastCall'.api_level \notin {31, 33, 34, 35, 36})
       => /\ ~lastCall'.ret
          /\ lastCall'.tools = <<>>
          /\ ~lastCall'.rewrote
          /\ installed' = installed
          /\ config' = config]_vars

\* A create_avd call for an unsupported level has been made on a manager that
\* had created a definition before.
C17_Witness ==
    /\ lastCall.op = "create_avd"
    /\ lastCall.api_level \notin SUPPORTED_API_LEVELS
    /\ calls = 2
    /\ config.exists

\* C18: a download_system_image call for a level whose image is already
\* installed returns True without running the license acceptance or the
\* download command.
C18_InstalledImageNotProvisioned ==
    (lastCall.op = "download_system_image" /\ lastCall.was_installed)
    => /\ lastCall.ret
       /\ lastCall.tools = <<>>

\* The keys of config_updates that no line of lines has.
AbsentKeys(lines) ==
    {k \in UpdateKeys :
        \A i \in 1..Len(lines) :
            Len(lines[i].atoms) = 0 \/ lines[i].atoms[1].k # k}

\* out is lines merged with config_updates: each line of lines whose key is
\* in config_updates is, at its place, "key=value" with the value of
\* config_updates; every other line is there at its place with its text; and
\* each key no line has is a line of its own after them.
MergeSemantics(lines, out) ==
    /\ Len(out) = Len(lines) + Cardinality(AbsentKeys(lines))
    /\ \A i \in 1..Len(lines) :
         IF Len(lines[i].atoms) > 0 /\ lines[i].atoms[1].k \in UpdateKeys
         THEN out[i].atoms = <<Pair(lines[i].atoms[1].k,
                                    UpdateValue(lines[i].atoms[1].k))>>
         ELSE out[i].atoms = lines[i].atoms
    /\ \A k \in AbsentKeys(lines) :
         \E j \in (Len(lines) + 1)..Len(out) :
             out[j].atoms = <<Pair(k, UpdateValue(k))>>

\* C19: the config.ini that _configure_avd leaves is the merge of the one it
\* read with config_updates, for every file read, also one whose last line
\* has no newline.
C19_MergeSemantics ==
    (lastCall.op = "_configure_avd" /\ lastCall.rewrote)
    => MergeSemantics(lastCall.source, config.lines)

-----------------------------------------------------------------------------
(* Properties of verify_output_pattern *)

\* C21: a verify_output_pattern call that has returned made exactly one
\* execute_command call; it returned True only if that call's result has
\* success True and the pattern occurs in its stdout when case is ignored; if
\* the command failed it returned False with a message that carries the
\* result's stderr, and on a mismatch False with a message that carries the
\* first OutputLimit characters of stdout and no more.
C21_VerifyOnce ==
    verify.pc = "returned"
    => LET r == verify.result
           n == Len(verify.message)
           found == \E i \in 0..(Len(r.stdout) - Len(verify.pattern)) :
                        \A j \in 1..Len(verify.pattern) :
                            Lower(r.stdout[i + j]) = Lower(verify.pattern[j])
       IN /\ verify.executes = 1
          /\ verify.matched <=> (r.success /\ found)
          /\ ~r.success =>
                /\ ~verify.matched
                /\ SubSeq(verify.message, 2, n) = r.stderr
          /\ (r.success /\ ~found) =>
                /\ ~verify.matched
                /\ n - 2 <= OutputLimit
                /\ n - 2 = (IF Len(r.stdout) < OutputLimit THEN Len(r.stdout)
                            ELSE OutputLimit)
                /\ \A i \in 1..(n - 2) : verify.message[i + 1] = r.stdout[i]

\* A call has returned a mismatch on an output longer than OutputLimit.
C21_Witness ==
    /\ verify.pc = "returned"
    /\ ~verify.matched
    /\ verify.result.success
    /\ Len(verify.result.stdout) > OutputLimit

-----------------------------------------------------------------------------
(* Properties of _format_command *)

\* The caller's command, after its leading tool name, begins with the
\* target-device flag and an identifier.
OwnTargetFlag(command) == Len(command) >= 2 /\ command[1] = FlagWord

\* The command without one leading tool name.
WithoutToolName(command) ==
    IF Len(command) >= 2 /\ command[1] = AdbWord
    THEN SubSeq(command, 2, Len(command)) ELSE command

\* C22: the command run is the tool's name, then the target-device flag and
\* the given identifier unless the caller's command has its own target-device
\* flag, then the caller's command without one leading tool name; the flag's
\* characters as a later argument or inside another word do not count as the
\* caller's flag.
C22_TargetFlag ==
    formatted # NoFormat
    => LET rest == WithoutToolName(formatted.command)
       IN formatted.out =
            IF OwnTargetFlag(rest) THEN <<AdbWord>> \o rest
            ELSE <<AdbWord, FlagWord, SerialWord(formatted.serial)>> \o rest

-----------------------------------------------------------------------------
(* Properties of the order of the history *)

\* The place, in the order in which commands ended, of the command whose
\* result is the history entry r.
EndedAt(r) ==
    CHOOSE k \in 1..Len(finished.order) :
        finished.order[k] = <<r.call, r.command>>

\* The history entry r is the result of the own command of a call that asked
\* for a screenshot.
MainWithScreenshot(r) ==
    r.command = "main" /\ exec[r.call].capture_screenshot

\* C23 (amended): the history is in the order in which the execute_command
\* calls returned.  Of two entries, the one whose command ended earlier comes
\* first, except for the own command of a call that asked for a screenshot:
\* its entry is stored when the call returns, right after the entries of the
\* call's screenshot commands, though the command ended before they ran.
C23_OrderOfReturn ==
    /\ \A i, j \in 1..Len(command_history) :
         (i < j /\ ~MainWithScreenshot(command_history[j]))
         => EndedAt(command_history[i]) < EndedAt(command_history[j])
    /\ \A j \in 1..Len(command_history) :
         MainWithScreenshot(command_history[j])
         => /\ j > 1
            /\ command_history[j - 1].call = command_history[j].call
            /\ command_history[j - 1].command # "main"
            /\ EndedAt(command_history[j]) < EndedAt(command_history[j - 1])

\* The entry of a call that asked for a screenshot is in the history behind
\* an entry of the other call, whose command ended after the call's own.
C23_Witness ==
    \E i, j \in 1..Len(command_history) :
        /\ i < j
        /\ MainWithScreenshot(command_history[j])
        /\ command_history[i].call # command_history[j].call
        /\ EndedAt(command_history[j]) < EndedAt(command_history[i])

\* C23 (as claimed): of any two history entries, the one whose command ended
\* earlier comes first.
C23_CompletionOrder ==
    \A i, j \in 1..Len(command_history) :
        i < j => EndedAt(command_history[i]) < EndedAt(command_history[j])

-----------------------------------------------------------------------------
(* Properties of the lifecycle steps *)

\* How many times x occurs in the sequence seq.
Count(seq, x) == Cardinality({i \in 1..Len(seq) : seq[i] = x})

\* What a start and a create have done so far: at most one process spawned;
\* the license acceptance, the image download and avdmanager run at most
\* once each; nothing run after the step that failed.
StepsOnce ==
    /\ \A t \in Tasks :
         /\ Count(ops[t], Op("spawn", NoSerial, t)) <= 1
         /\ why[t] \in {"avd_not_found", "spawn_error"} => ops[t] = <<>>
         /\ why[t] = "discovery_timeout" => serial[t] = NoSerial
    /\ lastCall.op = "create_avd"
       => /\ Count(lastCall.tools, "sdkmanager --licenses") <= 1
          /\ Count(lastCall.tools, "sdkmanager image") <= 1
          /\ Count(lastCall.tools, "avdmanager create avd") <= 1
          /\ ~lastCall.ret => Count(lastCall.tools, "write config.ini") = 0

\* The waits of a start are not begun again: the call moves from the
\* discovery wait to the boot wait or to its return, from the boot wait to
\* its return, and stays returned; within a wait, waited never falls.
WaitsOnce ==
    \A t \in Tasks :
        /\ pc[t] = "wait_new_device"
           => /\ pc'[t] \in {"wait_new_device", "wait_boot", "returned"}
              /\ pc'[t] = "wait_new_device" => waited'[t] >= waited[t]
        /\ pc[t] = "wait_boot"
           => /\ pc'[t] \in {"wait_boot", "returned"}
              /\ pc'[t] = "wait_boot" => waited'[t] >= waited[t]
        /\ pc[t] = "returned" => (pc'[t] = "returned" /\ ret'[t] = ret[t])
        /\ Len(ops'[t]) >= Len(ops[t])

\* C24: one start_emulator call spawns at most one process and makes at most
\* one discovery wait and at most one boot wait; one create_avd call runs
\* the image provisioning at most once and avdmanager at most once; after a
\* step has failed the call runs no further step and returns.
C24_NoLifecycleRetry == []StepsOnce /\ [][WaitsOnce]_vars

\* A start has returned None after its boot wait ran out, and a create has
\* returned False after avdmanager failed.
C24_Witness ==
    /\ why[1] = "boot_timeout"
    /\ lastCall.op = "create_avd"
    /\ ~lastCall.ret
    /\ Count(lastCall.tools, "avdmanager create avd") = 1

-----------------------------------------------------------------------------
(* Properties of the table of records *)

\* A step in which a stop_emulator call ran (the caller's, or the one
\* start_emulator makes after its boot wait ran out).
StopRan == lastStop' # lastStop \/ stops' # stops

\* C25: when stop_emulator(serial) has returned, self.emulators holds no
\* record under serial, whatever the graceful kill did; and a record leaves
\* self.emulators only in a step of stop_emulator on its serial.
C25_StopRemovesRecord ==
    [][/\ StopRan => emulators'[lastStop'.serial] = 0
       /\ \A s \in Serials :
            (emulators[s] # 0 /\ emulators'[s] = 0)
                => (StopRan /\ lastStop'.serial = s)]_vars

\* A launch that has spawned its process and is waiting for its serial has
\* a record, in status starting, in self.emulators.
RecordFromSpawn ==
    \A t \in Tasks :
        (pc[t] = "wait_new_device" /\ process[t] = "alive")
            => /\ \E s \in Serials : emulators[s] = t
               /\ rec[t].status = "starting"

\* A stop_all_emulators made while a launch is waiting for its serial makes
\* a stop_emulator call that finds the record of that launch.
StopAllReaches ==
    StopAllCall
        => \A t \in Tasks :
             (pc[t] = "wait_new_device" /\ process[t] = "alive")
                 => (lastStop' # lastStop /\ lastStop'.handle = t)

\* C26: from the spawn of the emulator process on, self.emulators holds a
\* record for the launch, so that stop_all_emulators reaches a launch that
\* is still waiting for its serial.
C26_RecordWhenLaunchBegins == []RecordFromSpawn /\ [][StopAllReaches]_vars

-----------------------------------------------------------------------------
(* Properties of the definition lookup of start_emulator *)

\* C27: a start_emulator call whose name is not among the definitions that
\* list_avds returned (the name is unknown, the listing failed, or the
\* config.ini of the name could not be read) has returned None without
\* taking the snapshot of the devices, spawning a process or creating a
\* record; and a call that has a record found its name in the list.
C27_StartNeedsDefinition ==
    \A t \in Tasks :
        /\ (pc[t] # "idle" /\ avd_name[t] \notin lookup[t].avds)
              => /\ pc[t] = "returned"
                 /\ ret[t] = "None"
                 /\ ~lookup[t].snapshot
                 /\ devices_before[t] = {}
                 /\ ops[t] = <<>>
                 /\ process[t] = "unspawned"
                 /\ rec[t] = NoRecord
                 /\ \A s \in Serials : emulators[s] # t
        /\ rec[t] # NoRecord => avd_name[t] \in lookup[t].avds

\* A start_emulator call on a listed definition has returned None after
\* list_avds left the definition out because its config.ini could not be
\* read.
C27_Witness ==
    /\ pc[1] = "returned"
    /\ ret[1] = "None"
    /\ lookup[1].listing = "config_unreadable"
    /\ avd_name[1] \in ListedAvds

-----------------------------------------------------------------------------
(* Properties of create_avd *)

\* The config.ini has a line that is exactly key=value.
HasSetting(file, key, value) ==
    \E i \in 1..Len(file.lines) : file.lines[i].atoms = <<Pair(key, value)>>

\* C28: when create_avd has returned True, the config.ini of the definition
\* exists and holds every key of config_updates with its value.
C28_TrueMeansConfigured ==
    (lastCall.op = "create_avd" /\ lastCall.ret)
        => /\ config.exists
           /\ \A key \in UpdateKeys : HasSetting(config, key, UpdateValue(key))

\* A step in which a create_avd call ran.
CreateRan == lastCall'.op = "create_avd" /\ calls' # calls

\* C29: create_avd runs avdmanager only after download_system_image has run
\* and returned True; when download_system_image returns False, create_avd
\* returns False, does not run avdmanager and leaves the config.ini alone.
C29_ImageBeforeCreate ==
    [][CreateRan =>
        /\ \A i \in 1..Len(lastCall'.tools) :
             lastCall'.tools[i] = "avdmanager create avd"
                 => /\ lastCall'.downloaded = "True"
                    /\ \E j \in 1..(i - 1) : lastCall'.tools[j] = "sdkmanager image"
        /\ lastCall'.downloaded = "False"
             => /\ ~lastCall'.ret
                /\ Count(lastCall'.tools, "avdmanager create avd") = 0
                /\ Count(lastCall'.tools, "write config.ini") = 0
                /\ ~lastCall'.rewrote
                /\ config' = config]_vars

\* A create_avd call returned False after its image download ran and failed,
\* with the config.ini of an earlier create_avd call in place.
C29_Witness ==
    /\ lastCall.op = "create_avd"
    /\ lastCall.downloaded = "False"
    /\ Count(lastCall.tools, "sdkmanager image") = 1
    /\ config.exists

-----------------------------------------------------------------------------
(* Properties of list_avds and _get_avd_info *)

\* C30: a list_avds call (whose listing command exited 0) or a
\* _get_avd_info call that meets a config.ini that cannot be opened or
\* decoded raises to its caller.
C30_FaultPropagates ==
    (/\ lastCall.op \in {"list_avds", "_get_avd_info"}
     /\ lastCall.op = "list_avds" => lastCall.listing.command = "zero"
     /\ config.fault \in {"open", "decode"})
        => lastCall.listing.outcome = "raised"

-----------------------------------------------------------------------------
(* Properties of the results of start_emulator *)

\* The paths on which a start_emulator call fails.
FailurePaths ==
    {"avd_not_found", "spawn_error", "discovery_timeout", "boot_timeout",
     "probe_error"}

\* C31: no exception leaves start_emulator: a call that has failed on any
\* path (definition not found, Popen raising, discovery timeout, boot not
\* confirmed, an adb command raising) has returned None, and a call that
\* has returned has returned None or its record.
C31_StartNeverRaises ==
    \A t \in Tasks :
        /\ ret[t] \in {"pending", "None", "emulator"}
        /\ pc[t] = "returned" => ret[t] \in {"None", "emulator"}
        /\ why[t] \in FailurePaths => (pc[t] = "returned" /\ ret[t] = "None")
        /\ ret[t] = "None" => why[t] \in FailurePaths

\* A start_emulator call has returned after an adb command of its boot wait
\* raised.
C31_Witness == pc[1] = "returned" /\ why[1] = "probe_error"

-----------------------------------------------------------------------------
(* Properties of check_prerequisites *)

\* What check_prerequisites has returned: it has not raised, and a tool is
\* reported available only if one of its probes exited 0 or its path
\* exists.
ChecksSound ==
    lastCall.op = "check_prerequisites"
        => /\ lastCall.checks.outcome = "returned"
           /\ DOMAIN lastCall.checks.tools = RequiredTools
           /\ \A tool \in RequiredTools :
                LET c == lastCall.checks.tools[tool]
                IN /\ c.available \in BOOLEAN
                   /\ c.available
                        => (c.first = "zero" \/ c.second = "zero" \/ c.exists)

\* A check_prerequisites call changes neither the manager nor what is
\* persisted.
ChecksReadOnly ==
    lastCall'.op = "check_prerequisites" /\ calls' # calls
        => /\ lifeVars' = lifeVars
           /\ installed' = installed
           /\ config' = config
           /\ command_history' = command_history

\* C32: check_prerequisites returns, for every outcome of its probes, a
\* mapping with the four tools; a tool is available only if a probe exited
\* 0 or its path exists; the call leaves self.emulators, the installed
\* images and the config.ini as they were.
C32_CheckPrerequisites == []ChecksSound /\ [][ChecksReadOnly]_vars

\* A check_prerequisites call has returned with adb's first probe timing
\* out, the emulator's probe not launched, avdmanager's exiting non-zero
\* and sdkmanager found by its second probe only, while the manager holds a
\* running record.
C32_Witness ==
    /\ lastCall.op = "check_prerequisites"
    /\ lastCall.checks.tools["adb"].first = "timeout"
    /\ lastCall.checks.tools["emulator"].first = "not_launched"
    /\ lastCall.checks.tools["avdmanager"].first = "nonzero"
    /\ lastCall.checks.tools["sdkmanager"].second = "zero"
    /\ lastCall.checks.tools["sdkmanager"].available
    /\ emulators["emulator-5554"] = 1

-----------------------------------------------------------------------------
(* Properties of a start on a running definition *)

\* Call 2 was given the name of the definition that call 1 has running.
SameDefinition == pc[2] # "idle" /\ avd_name[2] = avd_name[1]

\* Call 1's record is in self.emulators under its serial, as call 1
\* returned it, and its emulator is running.
FirstUntouched ==
    /\ emulators["emulator-5554"] = 1
    /\ rec[1].serial = "emulator-5554"
    /\ rec[1].status = "running"
    /\ rec[1].process_id = 1
    /\ process[1] = "alive"

\* C33: a start_emulator call on the name of a definition that already has
\* a running record spawns a process of its own (unless list_avds or Popen
\* fails) and leaves the running record, its place in self.emulators and
\* its emulator as they were.
C33_SecondStartIndependent ==
    SameDefinition
        => /\ why[2] \notin {"avd_not_found", "spawn_error"}
                => Count(ops[2], Op("spawn", NoSerial, 2)) = 1
           /\ FirstUntouched

-----------------------------------------------------------------------------
(* Properties of the history's growth *)

\* h is g, possibly with entries after it.
IsPrefix(g, h) == Len(g) <= Len(h) /\ SubSeq(h, 1, Len(g)) = g

\* C34: a step of an execute_command call (a helper's or a verification's
\* included) leaves the entries of the history in place, with their content
\* and order, and may add entries after them; the history gets shorter only
\* in a clear_history call, which empties it.
C34_HistoryNeverPruned ==
    [][\/ IsPrefix(command_history, command_history')
       \/ (ClearHistory /\ command_history' = <<>>)]_vars

\* Both execute_command calls have returned, one of them with a screenshot,
\* and the history holds the four entries of that call only: a
\* clear_history call removed the entry of the other.
C34_Witness ==
    /\ \A c \in Calls : exec[c].pc = "returned"
    /\ Len(command_history) = 4
    /\ \A i \in 1..4 : command_history[i].call = command_history[1].call

-----------------------------------------------------------------------------
(* Properties of list_running_emulators *)

\* C35: whenever a task can call list_running_emulators, every record it
\* returns has status running.
C35_ListedAreRunning ==
    \A r \in list_running_emulators(CurrentWorld) : r.status = "running"

-----------------------------------------------------------------------------
(* Properties of stop_all_emulators *)

\* No start_emulator call is between its spawn and its return.
NoStartInProgress == \A t \in Tasks : pc[t] \in {"idle", "returned"}

\* C36: a stop_all_emulators call made while no start is in progress leaves
\* self.emulators empty, whatever the graceful kills of its stop_emulator
\* calls did.
C36_StopAllEmpties ==
    [][(StopAllCall /\ NoStartInProgress)
          => \A s \in Serials : emulators'[s] = 0]_vars

-----------------------------------------------------------------------------
(* Termination of start_emulator *)

\* The polls of _wait_for_new_device and the attempts of _wait_for_boot made
\* so far by a call that is in the wait.
DiscoveryPolls(t) == waited[t] \div NewDeviceCheckInterval

BootAttempts(t) == waited[t] \div BootCheckInterval + 1

\* A call in its discovery wait has made fewer than 60 polls, so that its
\* next is at most the 60th; a call in its boot wait has made at most 40
\* attempts.
WaitsBounded ==
    \A t \in Tasks :
        /\ pc[t] = "wait_new_device" => DiscoveryPolls(t) < 60
        /\ pc[t] = "wait_boot" => BootAttempts(t) <= 40

\* C37: every start_emulator call that has begun returns, after at most 60
\* polls of the discovery wait and at most 40 attempts of the boot wait.
C37_StartTerminates ==
    /\ []WaitsBounded
    /\ \A t \in Tasks : (pc[t] # "idle") ~> (pc[t] = "returned")

\* The boot wait of a call has made its 40th attempt, no device having
\* booted.
C37_Witness == pc[1] = "wait_boot" /\ BootAttempts(1) = 40

-----------------------------------------------------------------------------
(* Properties of a stop without a record *)

\* A stop_emulator call on a serial without a record has issued the
\* graceful kill alone and left self.emulators and the records as they were.
StopWithoutRecordFrame ==
    /\ lastStop'.issued = <<Op("emu_kill", lastStop'.serial, 0)>>
    /\ emulators' = emulators
    /\ rec' = rec

\* C38: a stop_emulator call on a serial that has no record in
\* self.emulators issues 'emu kill' for it and no 'kill', leaves
\* self.emulators and every record unchanged, and returns True.
C38_StopWithoutRecord ==
    [][(StopRan /\ emulators[lastStop'.serial] = 0)
          => (StopWithoutRecordFrame /\ lastStop'.ret = "True")]_vars

-----------------------------------------------------------------------------
(* Idempotence *)

\* C39: the config.ini that _configure_avd has rewritten is left as it is by
\* a second _configure_avd: the rewrite of the rewritten file is the
\* rewritten file.
C39_RewriteIdempotent ==
    (lastCall.op = "_configure_avd" /\ lastCall.rewrote)
        => Configured(config) = config

\* C40: _format_command applied, with the same serial, to a command it has
\* formatted returns that command: neither 'adb' nor '-s serial' is put in
\* front of it a second time.
C40_FormatIdempotent ==
    formatted # NoFormat
        => format_command(formatted.out, formatted.serial) = formatted.out

\* A command given with the tool's name and without a flag has been
\* formatted: the name was stripped and 'adb -s serial' put in front.
C40_Witness ==
    /\ formatted # NoFormat
    /\ Len(formatted.command) >= 2
    /\ formatted.command[1] = AdbWord
    /\ ~HasFlag(formatted.command)
    /\ formatted.out = <<AdbWord, FlagWord, SerialWord(formatted.serial)>>
                           \o Tail(formatted.command)

====
